---------------------------- MODULE Spec2Model ----------------------------
(***************************************************************************)
(* Verification model of parts of the accelerated-data-science SDK:        *)
(*   - ads/feature_store/common/spark_session_singleton.py                 *)
(*   - ads/llm/serialize.py                                                *)
(*   - ads/aqua/model.py, ads/aqua/base.py                                 *)
(*   - ads/telemetry/client.py                                             *)
(*   - ads/opctl/operator/lowcode/forecast/model/base_model.py,            *)
(*     ads/operators/forecast/forecast.py                                  *)
(*   - ads/aqua/extension/model_handler.py                                 *)
(*   - ads/model/artifact_downloader.py                                    *)
(*   - ads/feature_store/spark_sql/utilities/spark_sql.py                  *)
(*   - ads/opctl/backend/ads_ml_job.py                                     *)
(*   - ads/opctl/model/cmds.py                                             *)
(* Each subsystem has its own specification (SpecSingleton, SpecSerialize, *)
(* SpecAqua, SpecTelemetry, SpecForecast, SpecHandler, SpecDownloader,     *)
(* SpecSparkSQL, SpecMLJob, SpecThreads, SpecModelCmd); the variables of   *)
(* the other subsystems stay at their initial values.                      *)
(***************************************************************************)
EXTENDS Integers, Sequences, FiniteSets, TLC

VARIABLES
    \* ---- spark_session_singleton.py ----
    envDeveloperMode,   \* value of the DEVELOPER_MODE environment variable
    instances,          \* SingletonMeta._instances: class name -> instance
    ctorRuns,           \* ghost: how often SparkSessionSingleton.__init__ was entered
    created,            \* ghost: instances whose __init__ returned, in order
    returns,            \* ghost: outcome of every SparkSessionSingleton(...) call, in order
    \* ---- llm/serialize.py ----
    envVerifyCerts,     \* value of OCI_OPENSEARCH_VERIFY_CERTS in the environment
    dumpIn,             \* the object last given to dump()
    dumpOut,            \* what dump() did with it: a tree, or the exception raised
    loadIn,             \* the tree last given to load()
    loadOut,            \* what load() did with it: an object and the log of loader
                        \* invocations and completions, or the exception raised
    roundTrip,          \* TRUE when loadIn is the tree dump() returned for dumpIn
    \* ---- aqua/model.py ----
    catalog,            \* the models of the cloud's model catalog
    nCreated,           \* ghost: how many models AquaModelApp.create has added
    aquaOp,             \* ghost: the last AquaModelApp call and the failure injected
    aquaOut,            \* what that call returned or raised
    sdkCalls,           \* ghost: the SDK calls that call made, in order
    \* ---- telemetry/client.py ----
    telCalls,           \* ghost: outcome of every record_event_async call, in order
    telThreads,         \* the threads record_event_async created, in order
    \* ---- forecast/model/base_model.py, operators/forecast/forecast.py ----
    fcSpec,             \* the operator spec of the current generate_report run
    fcSelf,             \* the fields of the model object generate_report uses
    fcPc,               \* the step generate_report is at
    fcLog,              \* ghost: the calls of that run, in order
    opOut,              \* ghost: the last ForecastOperator.build_model call
    \* ---- aqua/extension/model_handler.py ----
    hReq,               \* ghost: the last request a handler was given
    hOut,               \* what the handler did: the value it finished with, or the exception
    hCalls,             \* ghost: the facade and Hugging Face calls of that request, in order
    modelListCache,     \* the model-list cache of the facade
    \* ---- model/artifact_downloader.py ----
    fsTarget,           \* what is at the path target_dir in the file system
    dlOut,              \* ghost: the last ArtifactDownloader.download call
    \* ---- feature_store/spark_sql/utilities/spark_sql.py ----
    sparkTable,         \* the rows of the table t the Spark session reads
    sqlOut,             \* ghost: the last run or run_no_throw call
    \* ---- opctl/backend/ads_ml_job.py ----
    mlOp,               \* ghost: the backend and the inputs of the last run call
    mlOut,              \* what that call returned or raised, and its SDK calls in order
    \* ---- spark_session_singleton.py, called from several threads ----
    thPc,               \* the step of SingletonMeta.__call__ each thread is at
    thInstances,        \* SingletonMeta._instances[SparkSessionSingleton]
    thNew,              \* the instance each thread's constructor run made
    thGot,              \* ghost: the instance each thread's last call returned
    thCtorRuns,         \* ghost: how often SparkSessionSingleton.__init__ ran
    \* ---- opctl/model/cmds.py ----
    artifactDir,        \* what is at the path artifact_directory in the file system
    cmdOut              \* ghost: the last download_model call

singletonVars == <<envDeveloperMode, instances, ctorRuns, created, returns>>
serializeVars == <<envVerifyCerts, dumpIn, dumpOut, loadIn, loadOut, roundTrip>>

aquaVars == <<catalog, nCreated, aquaOp, aquaOut, sdkCalls>>

telemetryVars == <<telCalls, telThreads>>

forecastVars == <<fcSpec, fcSelf, fcPc, fcLog, opOut>>

handlerVars == <<hReq, hOut, hCalls, modelListCache>>

downloaderVars == <<fsTarget, dlOut>>

sparkSQLVars == <<sparkTable, sqlOut>>

mlJobVars == <<mlOp, mlOut>>

threadsVars == <<thPc, thInstances, thNew, thGot, thCtorRuns>>

modelCmdVars == <<artifactDir, cmdOut>>

vars == <<singletonVars, serializeVars, aquaVars, telemetryVars, forecastVars, handlerVars, downloaderVars, sparkSQLVars, mlJobVars, threadsVars, modelCmdVars>>

\* The variables of the other subsystems, for each subsystem.
NotSingleton == <<serializeVars, aquaVars, telemetryVars, forecastVars, handlerVars, downloaderVars, sparkSQLVars, mlJobVars, threadsVars, modelCmdVars>>
NotSerialize == <<singletonVars, aquaVars, telemetryVars, forecastVars, handlerVars, downloaderVars, sparkSQLVars, mlJobVars, threadsVars, modelCmdVars>>
NotAqua == <<singletonVars, serializeVars, telemetryVars, forecastVars, handlerVars, downloaderVars, sparkSQLVars, mlJobVars, threadsVars, modelCmdVars>>
NotTelemetry == <<singletonVars, serializeVars, aquaVars, forecastVars, handlerVars, downloaderVars, sparkSQLVars, mlJobVars, threadsVars, modelCmdVars>>
NotForecast == <<singletonVars, serializeVars, aquaVars, telemetryVars, handlerVars, downloaderVars, sparkSQLVars, mlJobVars, threadsVars, modelCmdVars>>
NotHandler == <<singletonVars, serializeVars, aquaVars, telemetryVars, forecastVars, downloaderVars, sparkSQLVars, mlJobVars, threadsVars, modelCmdVars>>
NotDownloader == <<singletonVars, serializeVars, aquaVars, telemetryVars, forecastVars, handlerVars, sparkSQLVars, mlJobVars, threadsVars, modelCmdVars>>
NotSparkSQL == <<singletonVars, serializeVars, aquaVars, telemetryVars, forecastVars, handlerVars, downloaderVars, mlJobVars, threadsVars, modelCmdVars>>
NotMLJob == <<singletonVars, serializeVars, aquaVars, telemetryVars, forecastVars, handlerVars, downloaderVars, sparkSQLVars, threadsVars, modelCmdVars>>
NotThreads == <<singletonVars, serializeVars, aquaVars, telemetryVars, forecastVars, handlerVars, downloaderVars, sparkSQLVars, mlJobVars, modelCmdVars>>
NotModelCmd == <<singletonVars, serializeVars, aquaVars, telemetryVars, forecastVars, handlerVars, downloaderVars, sparkSQLVars, mlJobVars, threadsVars>>

None == "None"

\* The Python value None where an object is expected.
NoObject == [cls |-> "NoneType"]

(***************************************************************************)
(* spark_session_singleton.py                                              *)
(***************************************************************************)

\* Bound: number of SparkSessionSingleton(...) calls of one process.
MaxCalls == 3

\* Values of DEVELOPER_MODE in the environment ("unset": os.getenv gives None).
EnvValues == {"unset", "true", "False", "yes"}

\* Arguments of SparkSessionSingleton(metastore_id=...).
MetastoreIds == {None, "ms1", "ms2"}

\* str.lower() on the strings of the model it is applied to.
Lower(s) ==
    CASE s = "False"    -> "false"
      [] s = "TRUE"     -> "true"
      [] s = "OCI_AQUA" -> "oci_aqua"
      [] s = "True"     -> "true"
      [] s = "Org/Model" -> "org/model"
      [] s = "Text-Generation" -> "text-generation"
      [] s = "Prophet"  -> "prophet"
      [] s = "NeuralProphet" -> "neuralprophet"
      [] s = "ARIMA"    -> "arima"
      [] OTHER          -> s

\* get_env_bool(env_var, default): "True", "False", or "ValueError".
get_env_bool(env_val, default) ==
    IF env_val = "unset" THEN default
    ELSE IF Lower(env_val) = "true" THEN "True"
    ELSE IF Lower(env_val) = "false" THEN "False"
    ELSE "ValueError"

developer_enabled(env_val) == get_env_bool(env_val, "False")

\* SparkSessionSingleton.__init__(metastore_id), for the k-th object Python
\* allocates: the new instance, or the exception that leaves __init__.
\* catalogFails: data_catalog_client.get_metastore raises.
SparkSessionSingleton_init(k, metastore_id, env_val, catalogFails) ==
    IF developer_enabled(env_val) = "ValueError"
    THEN [raised |-> "ValueError"]
    ELSE IF developer_enabled(env_val) = "False" /\ metastore_id # None /\ catalogFails
    THEN [raised |-> "ServiceError"]
    ELSE [raised |-> None,
          id |-> k,
          metastore |-> IF developer_enabled(env_val) = "False" THEN metastore_id ELSE None,
          delta_pip |-> developer_enabled(env_val) = "True",
          spark_session |-> k]

\* Mutant: the cache is never consulted.
NotCached_always(inst, cls) == TRUE

\* `cls not in cls._instances`
NotCached(inst, cls) == cls \notin DOMAIN inst

\* SingletonMeta.__call__ for cls = SparkSessionSingleton.
SingletonMeta_call(metastore_id, catalogFails) ==
    LET cls == "SparkSessionSingleton" IN
    /\ Len(returns) < MaxCalls
    /\ IF NotCached(instances, cls)
       THEN LET obj == SparkSessionSingleton_init(ctorRuns + 1, metastore_id,
                                                  envDeveloperMode, catalogFails) IN
            /\ ctorRuns' = ctorRuns + 1
            /\ IF obj.raised # None
               THEN /\ instances' = instances
                    /\ created' = created
                    /\ returns' = Append(returns, [raised |-> obj.raised, arg |-> metastore_id])
               ELSE /\ instances' = [c \in DOMAIN instances \cup {cls} |->
                                        IF c = cls THEN obj ELSE instances[c]]
                    /\ created' = Append(created, obj)
                    /\ returns' = Append(returns, [raised |-> None, arg |-> metastore_id,
                                                   value |-> obj])
       ELSE /\ returns' = Append(returns, [raised |-> None, arg |-> metastore_id,
                                           value |-> instances[cls]])
            /\ UNCHANGED <<instances, ctorRuns, created>>
    /\ UNCHANGED envDeveloperMode

\* C10 as stated: after any sequence of calls the session constructor has run at
\* most once, the calls that returned all gave the same instance, and that
\* instance is the one cached.
C10_ConstructorRunsAtMostOnce ==
    /\ ctorRuns <= 1
    /\ \A i, j \in DOMAIN returns :
          (returns[i].raised = None /\ returns[j].raised = None) =>
              returns[i].value = returns[j].value
    /\ \A i \in DOMAIN returns :
          returns[i].raised = None => instances["SparkSessionSingleton"] = returns[i].value

\* C10 as amended: the session constructor has completed at most once; every
\* call that returns gives that one instance (with its spark_session), which
\* stays cached under the class and is neither replaced nor removed, whatever
\* the arguments of later calls are. A call whose constructor raises caches
\* nothing, so a later call runs the constructor again.
C10_SingleCachedInstance ==
    /\ Len(created) <= 1
    /\ \A i \in DOMAIN returns :
          returns[i].raised = None =>
              /\ Len(created) = 1
              /\ returns[i].value = created[1]
              /\ returns[i].value.spark_session = created[1].spark_session
    /\ Len(created) = 1 =>
          /\ "SparkSessionSingleton" \in DOMAIN instances
          /\ instances["SparkSessionSingleton"] = created[1]
    /\ Len(created) = 0 => DOMAIN instances = {}
    /\ ctorRuns = Len(created) + Cardinality({i \in DOMAIN returns : returns[i].raised # None})

\* C10 witness: a call whose constructor raised, then two calls with different
\* metastore ids that both returned.
C10_Witness ==
    \E i, j, k \in DOMAIN returns :
        /\ i < j /\ j < k
        /\ returns[i].raised # None
        /\ returns[j].raised = None /\ returns[k].raised = None
        /\ returns[j].arg # returns[k].arg

SingletonInit ==
    /\ envDeveloperMode \in EnvValues
    /\ instances = <<>>
    /\ ctorRuns = 0
    /\ created = <<>>
    /\ returns = <<>>

SingletonNext ==
    \E m \in MetastoreIds, f \in BOOLEAN :
        SingletonMeta_call(m, f) /\ UNCHANGED NotSingleton

(***************************************************************************)
(* llm/serialize.py: the objects given to dump()                           *)
(*                                                                         *)
(* Every Python value is a record with a field cls (its class); every JSON *)
(* tree is a record without it. A Python str is [cls |-> "str", val |-> s] *)
(* and its JSON form is [str |-> s].                                       *)
(***************************************************************************)

\* custom_serialization, in insertion order (the order dict.items() yields).
custom_serialization ==
    <<"GuardrailSequence", "CustomGuardrailBase", "RunnableParallel", "RetrievalQA">>

\* The method resolution order of the classes of the model. MyGuardrail is a
\* guardrail written by a user (a subclass of CustomGuardrailBase);
\* GuardedParallel inherits from two registered classes.
Mro(cls) ==
    CASE cls = "GuardrailSequence"   -> {"GuardrailSequence", "Serializable"}
      [] cls = "CustomGuardrailBase" -> {"CustomGuardrailBase", "Serializable"}
      [] cls = "MyGuardrail"         -> {"MyGuardrail", "CustomGuardrailBase", "Serializable"}
      [] cls = "RunnableParallel"    -> {"RunnableParallel", "Serializable"}
      [] cls = "GuardedParallel"     -> {"GuardedParallel", "RunnableParallel",
                                         "GuardrailSequence", "Serializable"}
      [] cls = "RetrievalQA"         -> {"RetrievalQA", "Chain", "Serializable"}
      [] cls = "LLMChain"            -> {"LLMChain", "Chain", "Serializable"}
      [] cls = "LegacyChain"         -> {"LegacyChain", "Chain", "Serializable"}
      [] cls = "Embeddings"          -> {"Embeddings", "Serializable"}
      [] cls = "Memory"              -> {"Memory", "Serializable"}
      [] OTHER                       -> {cls}

isinstance(obj, c) == c \in Mro(obj.cls)

\* obj.is_lc_serializable()
is_lc_serializable(obj) ==
    obj.cls \in {"GuardrailSequence", "RunnableParallel", "GuardedParallel",
                 "LLMChain", "Embeddings"}

\* hasattr(obj, "save")
hasattr_save(obj) == "Chain" \in Mro(obj.cls) \/ obj.cls = "Saver"

\* ---- the objects ----
StrObj(s) == [cls |-> "str", val |-> s]

\* Embedding functions: one LangChain-serializable, one a plain Python object.
Embs == {[cls |-> "Embeddings", model |-> "e1"], [cls |-> "LocalEmbeddings", model |-> "e1"]}

\* client.transport.hosts of an OpenSearch client.
HostLists ==
    { <<[scheme |-> "https", host |-> "h1", port |-> "9200"]>>,
      <<[scheme |-> "http", host |-> "h1", port |-> "9200"]>>,
      <<[scheme |-> "https", host |-> "h1", port |-> "9200"],
        [scheme |-> "https", host |-> "h2", port |-> "9200"]>> }

Clients ==
    {[cls |-> c, hosts |-> h, verify_certs |-> v] :
        c \in {"OpenSearch"}, h \in HostLists, v \in BOOLEAN}
    \cup {[cls |-> "Elasticsearch", hosts |-> h, verify_certs |-> TRUE] : h \in HostLists}

VectorStores ==
    {[cls |-> "FAISS", index |-> i, embedding_function |-> e] : i \in {"ix1", "ix2"}, e \in Embs}
    \cup {[cls |-> "OpenSearchVectorSearch", client |-> c, index_name |-> StrObj("docs"),
           embedding_function |-> e] : c \in Clients, e \in Embs}
    \cup {[cls |-> "Chroma", embedding_function |-> e] : e \in {[cls |-> "Embeddings", model |-> "e1"]}}

\* vectorstore._get_retriever_tags(): the tags as_retriever() always adds.
get_retriever_tags(vs) == <<vs.cls, vs.embedding_function.cls>>

\* vectorstore.as_retriever(**kwargs)
as_retriever(vs, search_type, tags, metadata) ==
    [cls |-> "VectorStoreRetriever", vectorstore |-> vs, search_type |-> search_type,
     tags |-> tags \o get_retriever_tags(vs), metadata |-> metadata]

Retrievers ==
    {as_retriever(vs, st, t, m) :
        vs \in VectorStores, st \in {"similarity", "mmr"}, t \in {<<>>, <<"mytag">>},
        m \in {None, "meta1"}}

RetrievalQAs ==
    {[cls |-> "RetrievalQA", combine |-> c, retriever |-> r] :
        c \in {"stuff_documents_chain"}, r \in Retrievers}

\* Objects of the registered classes whose save functions live in ads.llm.chain,
\* ads.llm.guardrails.base and ads.llm.patch, and of their subclasses.
Guardrails ==
    {[cls |-> c, name |-> n] :
        c \in {"GuardrailSequence", "CustomGuardrailBase", "MyGuardrail",
               "RunnableParallel", "GuardedParallel"},
        n \in {"g1", "g2"}}

\* What a chain can hold in the one attribute the model gives it.
ChainAttrs ==
    Embs \cup {[cls |-> "GuardrailSequence", name |-> "g1"]}
         \cup {qa \in RetrievalQAs :
                 /\ qa.retriever.vectorstore.cls = "Chroma"
                 /\ qa.retriever.search_type = "mmr"
                 /\ qa.retriever.metadata = None
                 /\ Len(qa.retriever.tags) = Len(get_retriever_tags(qa.retriever.vectorstore))}

\* Chains that are not registered: LLMChain is LangChain-serializable,
\* LegacyChain is not; both have the legacy save() method, which refuses a chain
\* with memory.
Chains ==
    {[cls |-> c, attr |-> a, memory |-> m] :
        c \in {"LLMChain", "LegacyChain"}, a \in ChainAttrs, m \in {None, "buffer"}}

\* Other unregistered objects: Serializable without save(), and plain objects
\* with and without a save attribute.
Others ==
    {[cls |-> "Memory", model |-> "e1"], [cls |-> "Saver", model |-> "e1"],
     [cls |-> "LocalEmbeddings", model |-> "e1"], [cls |-> "Embeddings", model |-> "e1"]}

Objects == RetrievalQAs \cup Guardrails \cup Chains \cup Others

(***************************************************************************)
(* llm/serialize.py: dump() and the save functions                         *)
(*                                                                         *)
(* A call returns [raised |-> None, value |-> v] or [raised |-> exception].*)
(***************************************************************************)
Ok(v) == [raised |-> None, value |-> v]
Raise(e) == [raised |-> e]

RECURSIVE custom_lookup(_, _)
RECURSIVE dump(_)
RECURSIVE default(_)
RECURSIVE JsonEncode(_)
RECURSIVE apply_save_fn(_, _)

\* vectordb_serialization: the class names that have a vector store serializer.
vectordb_serialization == {"OpenSearchVectorSearch", "FAISS"}

\* The type() of the serializers: the tags written as "_type".
SerializerType(entry) ==
    CASE entry = "GuardrailSequence"   -> "ads_guardrail_sequence"
      [] entry = "CustomGuardrailBase" -> "ads_guardrail"
      [] entry = "RunnableParallel"    -> "ads_runnable_parallel"
      [] entry = "RetrievalQA"         -> "retrieval_qa"

\* GuardrailSequence.save, CustomGuardrailBase.save, RunnableParallelSerializer.save:
\* a tree tagged with the serializer's type that names the class and holds the
\* object's configuration.
registered_save(entry, obj) ==
    Ok([_type |-> SerializerType(entry), class |-> obj.cls, spec |-> [name |-> obj.name]])

\* FAISS.serialize_to_bytes, base64.b64encode(...).decode, json.dumps
serialize_to_bytes(obj) == [pickle |-> <<obj.index>>]
b64encode(bytes) == [b64 |-> bytes]
json_dumps_str(s) == [jsonstr |-> s]

\* FaissSerializer.save
FaissSerializer_save(obj) ==
    LET emb == dump(obj.embedding_function) IN
    IF emb.raised # None THEN Raise(emb.raised)
    ELSE Ok([_type |-> "FAISS",
             vectordb |-> json_dumps_str(b64encode(serialize_to_bytes(obj))),
             embedding_function |-> emb.value])

\* f"https://{client_info['host']}:{client_info['port']}"
opensearch_url(client_info) == <<"https", "://", client_info.host, ":", client_info.port>>

\* OpenSearchVectorDBSerializer.save. obj.__dict__ holds embedding_function,
\* index_name and client, in the order the constructor assigns them.
OpenSearchVectorDBSerializer_save(obj) ==
    LET emb == dump(obj.embedding_function)
        idx == dump(obj.index_name)
    IN  IF emb.raised # None THEN Raise(emb.raised)
        ELSE IF idx.raised # None THEN Raise(idx.raised)
        ELSE IF obj.client.cls # "OpenSearch" THEN Raise("NotImplementedError")
        ELSE Ok([lc |-> "1", type |-> "constructor", id |-> obj.cls,
                 _type |-> "OpenSearchVectorSearch",
                 kwargs |-> [embedding_function |-> emb.value,
                             index_name |-> idx.value,
                             opensearch_url |-> opensearch_url(obj.client.hosts[1])]])

\* vectordb_serializer.save for the serializer registered under cls.
vectordb_save(cls, vs) ==
    IF cls = "FAISS" THEN FaissSerializer_save(vs) ELSE OpenSearchVectorDBSerializer_save(vs)

\* RetrievalQASerializer.save. obj.dict() leaves the retriever out and tags the
\* chain and its combine_documents_chain with "_type".
RetrievalQASerializer_save(obj) ==
    LET cls == obj.retriever.vectorstore.cls
        serialized == [_type |-> "retrieval_qa",
                       combine_documents_chain |-> [_type |-> obj.combine],
                       retriever_kwargs |-> [search_type |-> obj.retriever.search_type]]
    IN  IF cls \notin vectordb_serialization THEN Raise("KeyError")
        ELSE LET vs == vectordb_save(cls, obj.retriever.vectorstore) IN
             IF vs.raised # None THEN Raise(vs.raised)
             ELSE Ok([vectordb |-> vs.value @@ [class |-> cls]] @@ serialized)

apply_save_fn(entry, obj) ==
    IF entry = "RetrievalQA" THEN RetrievalQASerializer_save(obj)
    ELSE registered_save(entry, obj)

\* `isinstance(obj, super_class)` of the loops over custom_serialization.items()
Matches(obj, super_class) == isinstance(obj, super_class)

\* Mutant: the loop keeps the last entry that matches instead of the first.
custom_lookup_last(obj, i) ==
    LET m == {j \in i..Len(custom_serialization) : Matches(obj, custom_serialization[j])} IN
    IF m = {} THEN None
    ELSE custom_serialization[CHOOSE j \in m : \A k \in m : k <= j]

\* The loop `for super_class, save_fn in custom_serialization.items()` from
\* entry i on: the first entry that matches, or None.
custom_lookup(obj, i) ==
    IF i > Len(custom_serialization) THEN None
    ELSE IF Matches(obj, custom_serialization[i]) THEN custom_serialization[i]
    ELSE custom_lookup(obj, i + 1)

\* Serializable.to_json()
to_json(obj) ==
    [lc |-> "1", type |-> "constructor", id |-> obj.cls,
     kwargs |-> IF "attr" \in DOMAIN obj
                THEN [memory |-> obj.memory, attr |-> obj.attr]
                ELSE [model |-> obj.model]]

\* default(obj), the hook json.dumps calls for what it cannot encode itself.
default(obj) ==
    LET entry == custom_lookup(obj, 1) IN
    IF entry # None THEN apply_save_fn(entry, obj)
    ELSE IF isinstance(obj, "Serializable") /\ is_lc_serializable(obj) THEN Ok(to_json(obj))
    ELSE Raise("TypeError")

\* json.loads(json.dumps(v, default=default)): a str and a dict are encoded
\* as they are, the values of a dict recursively; anything else goes through
\* default() and its result is encoded in turn. In the trees of the model only
\* kwargs.memory and kwargs.attr of a to_json() tree hold objects; the memory of
\* a chain is not LangChain-serializable.
JsonEncode(v) ==
    IF "cls" \in DOMAIN v
    THEN IF v.cls = "str" THEN Ok([str |-> v.val])
         ELSE LET d == default(v) IN
              IF d.raised # None THEN d ELSE JsonEncode(d.value)
    ELSE IF "lc" \in DOMAIN v /\ "attr" \in DOMAIN v.kwargs
    THEN IF v.kwargs.memory # None THEN Raise("TypeError")
         ELSE LET a == JsonEncode(v.kwargs.attr) IN
              IF a.raised # None THEN a
              ELSE Ok([v EXCEPT !.kwargs = [memory |-> None, attr |-> a.value]])
    ELSE Ok(v)

\* The "_type" the legacy dict() of a LangChain object carries.
legacy_type(cls) ==
    CASE cls = "LLMChain"    -> "llm_chain"
      [] cls = "LegacyChain" -> "legacy_chain"
      [] cls = "RetrievalQA" -> "retrieval_qa"
      [] cls = "Embeddings"  -> "embeddings"
      [] OTHER               -> cls

\* obj.save(file) followed by json.load(file), for a chain: Chain.save refuses a
\* chain with memory; an attribute that is no LangChain object cannot be
\* written as JSON.
legacy_save(obj) ==
    IF obj.memory # None THEN Raise("ValueError")
    ELSE IF ~isinstance(obj.attr, "Serializable") THEN Raise("TypeError")
    ELSE Ok([_type |-> legacy_type(obj.cls), memory |-> None,
             attr |-> IF "model" \in DOMAIN obj.attr
                      THEN [_type |-> legacy_type(obj.attr.cls), model |-> obj.attr.model]
                      ELSE [_type |-> legacy_type(obj.attr.cls)]])

\* `isinstance(obj, Serializable) and hasattr(obj, "save")`
HasLegacySave(obj) == isinstance(obj, "Serializable") /\ hasattr_save(obj)

\* dump(obj). via tells which branch produced the outcome: "custom" (a save
\* function of custom_serialization, named by entry), "legacy" (__save) or
\* "json" (json.dumps with default()).
dump(obj) ==
    LET entry == custom_lookup(obj, 1) IN
    IF entry # None
    THEN apply_save_fn(entry, obj) @@ [via |-> "custom", entry |-> entry]
    ELSE IF HasLegacySave(obj) /\ ~is_lc_serializable(obj)
    THEN legacy_save(obj) @@ [via |-> "legacy", entry |-> None]
    ELSE LET j == JsonEncode(obj) IN
         IF j.raised = "TypeError" /\ HasLegacySave(obj)
         THEN legacy_save(obj) @@ [via |-> "legacy", entry |-> None]
         ELSE j @@ [via |-> "json", entry |-> None]

(***************************************************************************)
(* llm/serialize.py: load() and the load functions                         *)
(*                                                                         *)
(* A loader returns [raised, value, log]. The log lists, in order, the     *)
(* loader calls ("call") and the objects built ("done"), each with the     *)
(* path of its node in the tree given to the outermost load().             *)
(* ctx holds what a loader reads besides the tree: the environment         *)
(* (verify_certs) and whether the constructor of a LangChain class accepts *)
(* a plain dict for an attribute (coerce).                                 *)
(***************************************************************************)
RECURSIVE load(_, _, _)
RECURSIVE lc_load(_, _, _)

Ev(ev, loader, path) == [ev |-> ev, loader |-> loader, path |-> path]
Loaded(v, log) == [raised |-> None, value |-> v, log |-> log]
Failed(e, log) == [raised |-> e, log |-> log]

\* custom_deserialization: the "_type" tags that have a load function.
custom_deserialization ==
    {"ads_guardrail_sequence", "ads_guardrail", "ads_runnable_parallel", "retrieval_qa"}

\* GuardrailSequence.load, CustomGuardrailBase.load, RunnableParallelSerializer.load
registered_load(config, path) ==
    Loaded([cls |-> config.class, name |-> config.spec.name],
           <<Ev("done", config._type, path)>>)

\* langchain.load.load.load with the Reviver: a dict with "lc" is revived after
\* the dicts nested in it; a "not_implemented" node cannot be revived; any
\* other dict, tagged with "_type" or not, is handed on as it is.
lc_load(obj, path, ctx) ==
    IF "lc" \notin DOMAIN obj THEN Loaded(obj, <<>>)
    ELSE IF obj.type = "not_implemented" THEN Failed("NotImplementedError", <<>>)
    ELSE IF "attr" \in DOMAIN obj.kwargs
    THEN LET a == lc_load(obj.kwargs.attr, path \o <<"kwargs", "attr">>, ctx) IN
         IF a.raised # None THEN a
         ELSE IF "cls" \notin DOMAIN a.value /\ ~ctx.coerce
         THEN Failed("ValidationError", a.log)
         ELSE Loaded([cls |-> obj.id, attr |-> a.value, memory |-> obj.kwargs.memory],
                     a.log \o <<Ev("done", "lc", path)>>)
    ELSE Loaded([cls |-> obj.id, model |-> obj.kwargs.model], <<Ev("done", "lc", path)>>)

\* The class a legacy "_type" names, for the chain types the legacy loader knows.
legacy_class(type) ==
    CASE type = "llm_chain"    -> "LLMChain"
      [] type = "legacy_chain" -> "LegacyChain"
      [] type = "embeddings"   -> "Embeddings"
      [] OTHER                 -> None

\* langchain.chains.loading.load_chain_from_config(config, **kwargs): it loads
\* the nested configurations of a chain before it builds the chain, needs the
\* retriever of a "retrieval_qa" chain as an argument, and rejects a "_type" it
\* does not know.
load_chain_from_config(config, retriever, path) ==
    LET call == Ev("call", "load_chain_from_config", path) IN
    IF config._type = "retrieval_qa"
    THEN IF retriever = NoObject THEN Failed("ValueError", <<call>>)
         ELSE Loaded([cls |-> "RetrievalQA",
                      combine |-> config.combine_documents_chain._type,
                      retriever |-> retriever],
                     <<call,
                       Ev("done", "load_chain_from_config", path \o <<"combine_documents_chain">>),
                       Ev("done", "load_chain_from_config", path)>>)
    ELSE IF legacy_class(config._type) \in {"LLMChain", "LegacyChain"}
    THEN IF legacy_class(config.attr._type) = None THEN Failed("ValueError", <<call>>)
         ELSE Loaded([cls |-> legacy_class(config._type), memory |-> config.memory,
                      attr |-> [cls |-> legacy_class(config.attr._type),
                                model |-> config.attr.model]],
                     <<call, Ev("done", "load_chain_from_config", path \o <<"attr">>),
                       Ev("done", "load_chain_from_config", path)>>)
    ELSE Failed("ValueError", <<call>>)

\* json.loads, base64.b64decode, FAISS.deserialize_from_bytes
json_loads_str(j) == j.jsonstr
b64decode(s) == s.b64
deserialize_from_bytes(embeddings, serialized) ==
    [cls |-> "FAISS", index |-> serialized.pickle[1], embedding_function |-> embeddings]

\* FaissSerializer.load
FaissSerializer_load(config, path, ctx) ==
    LET call == Ev("call", "FaissSerializer", path)
        emb == load(config.embedding_function, path \o <<"embedding_function">>, ctx)
    IN  IF emb.raised # None THEN Failed(emb.raised, <<call>> \o emb.log)
        ELSE Loaded(deserialize_from_bytes(emb.value, b64decode(json_loads_str(config.vectordb))),
                    <<call>> \o emb.log \o <<Ev("done", "FaissSerializer", path)>>)

\* The host entry the OpenSearch client makes of opensearch_url.
parse_url(url) == [scheme |-> url[1], host |-> url[3], port |-> url[5]]

\* OpenSearchVectorDBSerializer.load: the embedding function is loaded first;
\* os.environ.get("OCI_OPENSEARCH_VERIFY_CERTS", None).lower() fails when the
\* variable is not set.
OpenSearchVectorDBSerializer_load(config, path, ctx) ==
    LET call == Ev("call", "OpenSearchVectorDBSerializer", path)
        emb == load(config.kwargs.embedding_function,
                    path \o <<"kwargs", "embedding_function">>, ctx)
    IN  IF emb.raised # None THEN Failed(emb.raised, <<call>> \o emb.log)
        ELSE IF ctx.verify_certs = "unset" THEN Failed("AttributeError", <<call>> \o emb.log)
        ELSE Loaded([cls |-> "OpenSearchVectorSearch",
                     client |-> [cls |-> "OpenSearch",
                                 hosts |-> <<parse_url(config.kwargs.opensearch_url)>>,
                                 verify_certs |-> (Lower(ctx.verify_certs) = "true")],
                     index_name |-> StrObj(config.kwargs.index_name.str),
                     embedding_function |-> emb.value],
                    <<call>> \o emb.log \o <<Ev("done", "OpenSearchVectorDBSerializer", path)>>)

\* vectordb_serializer.load for the serializer registered under cls.
vectordb_load(cls, config, path, ctx) ==
    IF cls = "FAISS" THEN FaissSerializer_load(config, path, ctx)
    ELSE OpenSearchVectorDBSerializer_load(config, path, ctx)

\* RetrievalQASerializer.load
RetrievalQASerializer_load(config, path, ctx) ==
    LET call == Ev("call", "retrieval_qa", path)
        cls == config.vectordb.class
    IN  IF cls \notin vectordb_serialization THEN Failed("KeyError", <<call>>)
        ELSE LET vectordb == vectordb_load(cls, config.vectordb, path \o <<"vectordb">>, ctx) IN
             IF vectordb.raised # None THEN Failed(vectordb.raised, <<call>> \o vectordb.log)
             ELSE LET retriever == as_retriever(vectordb.value,
                                                config.retriever_kwargs.search_type, <<>>, None)
                      config_param == [_type |-> config._type,
                                       combine_documents_chain |-> config.combine_documents_chain]
                      chain == load_chain_from_config(config_param, retriever, path)
                  IN  [chain EXCEPT !.log = <<call>> \o vectordb.log \o @]

\* custom_deserialization[obj_type](obj, **kwargs)
custom_load(obj_type, obj, path, ctx) ==
    IF obj_type = "retrieval_qa" THEN RetrievalQASerializer_load(obj, path, ctx)
    ELSE LET r == registered_load(obj, path) IN
         [r EXCEPT !.log = <<Ev("call", obj_type, path)>> \o @]

\* Mutant: every tagged tree goes to the legacy loader.
HasCustomLoad_never(obj_type) == FALSE

\* `obj_type in custom_deserialization`
HasCustomLoad(obj_type) == obj_type \in custom_deserialization

\* load(obj). via tells which loader the tree was handed to: "custom" (a load
\* function of custom_deserialization), "legacy" (load_chain_from_config) or
\* "lc" (the LangChain loader). The inner function _load is never called.
load(obj, path, ctx) ==
    IF "_type" \in DOMAIN obj
    THEN IF HasCustomLoad(obj._type)
         THEN custom_load(obj._type, obj, path, ctx) @@ [via |-> "custom"]
         ELSE load_chain_from_config(obj, NoObject, path) @@ [via |-> "legacy"]
    ELSE lc_load(obj, path, ctx) @@ [via |-> "lc"]

(***************************************************************************)
(* llm/serialize.py: the operations                                        *)
(***************************************************************************)
NotCalled == [raised |-> "NotCalled"]

\* Configuration trees written by hand (a YAML file given to load_from_yaml)
\* rather than produced by dump(): a legacy chain, a tag nobody knows, and a
\* LangChain node that is not implemented.
ConfigTrees ==
    {[_type |-> "llm_chain", memory |-> None, attr |-> [_type |-> "embeddings", model |-> "e1"]],
     [_type |-> "my_chain"],
     [lc |-> "1", type |-> "not_implemented", id |-> "Chroma", kwargs |-> [model |-> "e1"]]}

LoadCtx(coerce) == [verify_certs |-> envVerifyCerts, coerce |-> coerce]

\* dump(obj)
Dump(obj) ==
    /\ dumpIn' = obj
    /\ dumpOut' = dump(obj)
    /\ loadIn' = NoObject
    /\ loadOut' = NotCalled
    /\ roundTrip' = FALSE
    /\ UNCHANGED envVerifyCerts

\* load(dump(obj)): load() on the tree the last dump() returned.
LoadDumped(coerce) ==
    /\ dumpOut.raised = None
    /\ loadOut = NotCalled
    /\ loadIn' = dumpOut.value
    /\ loadOut' = load(dumpOut.value, <<>>, LoadCtx(coerce))
    /\ roundTrip' = TRUE
    /\ UNCHANGED <<envVerifyCerts, dumpIn, dumpOut>>

\* load(tree) on a configuration written by hand.
LoadConfig(tree, coerce) ==
    /\ loadIn' = tree
    /\ loadOut' = load(tree, <<>>, LoadCtx(coerce))
    /\ roundTrip' = FALSE
    /\ UNCHANGED <<envVerifyCerts, dumpIn, dumpOut>>

SerializeInit ==
    /\ envVerifyCerts \in {"unset", "true", "False"}
    /\ dumpIn = NoObject
    /\ dumpOut = NotCalled
    /\ loadIn = NoObject
    /\ loadOut = NotCalled
    /\ roundTrip = FALSE

SerializeNext ==
    \/ \E obj \in Objects : Dump(obj) /\ UNCHANGED NotSerialize
    \/ \E c \in BOOLEAN : LoadDumped(c) /\ UNCHANGED NotSerialize
    \/ \E t \in ConfigTrees, c \in BOOLEAN : LoadConfig(t, c) /\ UNCHANGED NotSerialize

(***************************************************************************)
(* llm/serialize.py: the properties                                        *)
(***************************************************************************)
RegisteredTypes == {custom_serialization[i] : i \in DOMAIN custom_serialization}

\* C1: for every object whose type is registered in custom_serialization, load
\* of the tree dump returned for it rebuilds an object equal to the one
\* dumped.
C1_RoundTripRegistered ==
    (roundTrip /\ dumpIn.cls \in RegisteredTypes) =>
        (loadOut.raised = None /\ loadOut.value = dumpIn)

\* C2: for an object that no entry of custom_serialization matches, dump either
\* returns a tree made by a generic serializer (json.dumps with default(), or
\* the legacy save() through __save) or raises TypeError, and it raises
\* TypeError only when json.dumps has failed and the legacy save() is missing
\* or has failed too.
C2_GenericTreeOrTypeError ==
    (dumpOut # NotCalled /\ custom_lookup(dumpIn, 1) = None) =>
        \/ dumpOut.raised = None /\ dumpOut.via \in {"json", "legacy"}
        \/ /\ dumpOut.raised = "TypeError"
           /\ is_lc_serializable(dumpIn) \/ ~HasLegacySave(dumpIn)
                 => JsonEncode(dumpIn).raised = "TypeError"
           /\ HasLegacySave(dumpIn) => legacy_save(dumpIn).raised = "TypeError"

\* C3: load of a tree that carries "_type" hands the whole tree to the load
\* function registered for the tag when there is one and to the legacy loader
\* load_chain_from_config when there is none; the LangChain loader is used only
\* for a tree without "_type".
C3_LoaderByTag ==
    loadOut # NotCalled =>
        /\ ("_type" \in DOMAIN loadIn /\ loadIn._type \in custom_deserialization) =>
              /\ loadOut.via = "custom"
              /\ loadOut.log[1] = Ev("call", loadIn._type, <<>>)
        /\ ("_type" \in DOMAIN loadIn /\ loadIn._type \notin custom_deserialization) =>
              /\ loadOut.via = "legacy"
              /\ loadOut.log[1] = Ev("call", "load_chain_from_config", <<>>)
        /\ loadOut.via = "lc" => "_type" \notin DOMAIN loadIn

\* C3 witness: a tree with a registered tag was loaded by its load function, and
\* the object was built.
C3_Witness ==
    /\ loadOut # NotCalled /\ loadOut.raised = None
    /\ loadOut.via = "custom" /\ loadIn._type = "retrieval_qa"

\* The position of an entry of custom_serialization.
EntryIndex(entry) == CHOOSE i \in DOMAIN custom_serialization : custom_serialization[i] = entry

\* C4 as stated: the save function of an entry is applied only to an object
\* whose type is exactly the entry's type, and the entry is the first one of
\* the table that matches.
C4_ExactTypeMatch ==
    (dumpOut # NotCalled /\ dumpOut.via = "custom") =>
        /\ dumpIn.cls = dumpOut.entry
        /\ \A i \in DOMAIN custom_serialization :
              i < EntryIndex(dumpOut.entry) => dumpIn.cls # custom_serialization[i]

\* C4 as amended: the save function of an entry is applied only to an object
\* that is an instance of the entry's type (of the type or of a subclass), and
\* the entry is the first one in table order the object is an instance of.
C4_FirstInstanceMatch ==
    (dumpOut # NotCalled /\ dumpOut.via = "custom") =>
        /\ isinstance(dumpIn, dumpOut.entry)
        /\ \A i \in DOMAIN custom_serialization :
              i < EntryIndex(dumpOut.entry) => ~isinstance(dumpIn, custom_serialization[i])

\* C4 witness: an object that is an instance of two registered types, neither
\* of them its own type, was saved by the save function of an entry.
C4_Witness ==
    /\ dumpOut # NotCalled /\ dumpOut.via = "custom"
    /\ dumpIn.cls \notin RegisteredTypes
    /\ Cardinality({i \in DOMAIN custom_serialization :
                      isinstance(dumpIn, custom_serialization[i])}) > 1

\* The nested sub-objects of a tree that carry a type discriminator ("_type",
\* or the "lc" of a LangChain node), each with the path of the node it is a
\* part of.
ChildKeys == {"combine_documents_chain", "vectordb", "embedding_function", "attr"}
IsTagged(t) == "_type" \in DOMAIN t \/ "lc" \in DOMAIN t

RECURSIVE TaggedNodes(_, _)
TaggedNodes(t, path) ==
    LET direct == {<<k>> : k \in DOMAIN t \cap ChildKeys}
        inKwargs == IF "kwargs" \in DOMAIN t
                    THEN {<<"kwargs", k>> : k \in DOMAIN t.kwargs \cap ChildKeys}
                    ELSE {}
        At(p) == IF Len(p) = 1 THEN t[p[1]] ELSE t[p[1]][p[2]]
        slots == {p \in direct \cup inKwargs : IsTagged(At(p))}
    IN  {[path |-> path \o p, parent |-> path] : p \in slots}
        \cup UNION {TaggedNodes(At(p), path \o p) : p \in slots}

\* C5: when load has rebuilt the object of a tree, every nested tagged
\* sub-object was resolved, and before the node it is a part of.
C5_NestedResolvedFirst ==
    (loadOut # NotCalled /\ loadOut.raised = None) =>
        \A n \in TaggedNodes(loadIn, <<>>) :
            \E i, j \in DOMAIN loadOut.log :
                /\ i < j
                /\ loadOut.log[i].ev = "done" /\ loadOut.log[i].path = n.path
                /\ loadOut.log[j].ev = "done" /\ loadOut.log[j].path = n.parent

\* C24: RetrievalQASerializer.save on a chain whose retriever's vector store
\* class has no entry in vectordb_serialization raises NotImplementedError.
C24_UnregisteredVectorStoreNotImplemented ==
    (dumpIn.cls = "RetrievalQA"
        /\ dumpIn.retriever.vectorstore.cls \notin vectordb_serialization) =>
            dumpOut.raised = "NotImplementedError"


(***************************************************************************)
(* aqua/model.py: AquaModelApp over the model catalog of the cloud         *)
(***************************************************************************)

\* Bound: how many models AquaModelApp.create may add to the catalog.
MaxCreated == 1

\* ads.config: the compartment of the service models and the defaults taken
\* from the environment.
ODSC_MODEL_COMPARTMENT_OCID == "svc"
COMPARTMENT_OCID == "c1"
PROJECT_OCID == "p1"
UNKNOWN == "UNKNOWN"

\* Tags (the enum values used here)
AQUA_TAG == "OCI_AQUA"
AQUA_FINE_TUNED_MODEL_TAG == "aqua_fine_tuned_model"

\* The catalog the model starts with: service models with and without the Aqua
\* tag, and user models in two compartments that differ in tags and state.
\* freeform_tags is the set of the keys of the freeform tags.
Pool ==
    {[id |-> <<"svc", 1>>, compartment_id |-> "svc", project_id |-> "p0",
      freeform_tags |-> {"OCI_AQUA", "aqua_service_model"}, lifecycle_state |-> "ACTIVE"],
     [id |-> <<"svc", 2>>, compartment_id |-> "svc", project_id |-> "p0",
      freeform_tags |-> {}, lifecycle_state |-> "ACTIVE"],
     [id |-> <<"usr", 1>>, compartment_id |-> "c1", project_id |-> "p1",
      freeform_tags |-> {"OCI_AQUA", "aqua_fine_tuned_model"}, lifecycle_state |-> "ACTIVE"],
     [id |-> <<"usr", 2>>, compartment_id |-> "c1", project_id |-> "p1",
      freeform_tags |-> {"oci_aqua"}, lifecycle_state |-> "ACTIVE"],
     [id |-> <<"usr", 3>>, compartment_id |-> "c2", project_id |-> "p2",
      freeform_tags |-> {"OCI_AQUA", "aqua_fine_tuned_model"}, lifecycle_state |-> "ACTIVE"],
     [id |-> <<"usr", 4>>, compartment_id |-> "c1", project_id |-> "p1",
      freeform_tags |-> {"OCI_AQUA", "aqua_fine_tuned_model"}, lifecycle_state |-> "DELETED"],
     [id |-> <<"usr", 5>>, compartment_id |-> "c2", project_id |-> "p2",
      freeform_tags |-> {"license"}, lifecycle_state |-> "ACTIVE"]}

\* Model ids a caller asks for; <<"usr", 9>> names no model.
ModelIds == {m.id : m \in Pool} \cup {<<"usr", 9>>} \cup {<<"new", k>> : k \in 1..MaxCreated}

\* What a call of the cloud SDK can raise: a service error, which carries the
\* HTTP status, the error code and the request id, and an error raised before
\* any response (a timeout, a connection error), which carries none of them.
NotFound == [kind |-> "ServiceError", status |-> "404", code |-> "NotAuthorizedOrNotFound",
             request_id |-> "req1"]
SdkErrors ==
    {NotFound,
     [kind |-> "ServiceError", status |-> "500", code |-> "InternalError", request_id |-> "req2"],
     [kind |-> "RequestException"]}

\* No failure, or the SDK call `at` raising err.
NoFailure == [at |-> "nowhere"]
Failures(steps) == {NoFailure} \cup {[at |-> s, err |-> e] : s \in steps, e \in SdkErrors}

\* The handlers `except Exception as se: raise AquaServiceError(
\* opc_request_id=se.request_id, status_code=se.code)`: reading an attribute
\* the exception does not have raises AttributeError.
raise_service_error(se) ==
    IF "request_id" \notin DOMAIN se \/ "code" \notin DOMAIN se
    THEN [raised |-> "AttributeError"]
    ELSE [raised |-> "AquaServiceError", opc_request_id |-> se.request_id,
          status_code |-> se.code]

\* Mutant: every model is shown.
if_show_always(model) == TRUE

\* AquaModelApp._if_show
if_show(model) ==
    AQUA_TAG \in model.freeform_tags \/ Lower(AQUA_TAG) \in model.freeform_tags

\* Mutant: the query does not name the compartment.
rqs_query_anywhere(compartment_id) ==
    [compartmentId |-> "*", lifecycleState |-> "ACTIVE",
     tagKeys |-> {AQUA_TAG, AQUA_FINE_TUNED_MODEL_TAG}]

\* The query AquaModelApp._rqs builds: the compartment, the lifecycle state,
\* and the two freeform tag keys a resource must have.
rqs_query(compartment_id) ==
    [compartmentId |-> compartment_id, lifecycleState |-> "ACTIVE",
     tagKeys |-> {AQUA_TAG, AQUA_FINE_TUNED_MODEL_TAG}]

\* OCIResource.search(query): the resources of the catalog the query selects.
search(cat, query) ==
    {m \in cat :
        /\ query.compartmentId \in {"*", m.compartment_id}
        /\ m.lifecycle_state = query.lifecycleState
        /\ query.tagKeys \subseteq m.freeform_tags}

\* self.list_resource(self.ds_client.list_models, compartment_id=...)
list_models(cat, compartment_id) == {m \in cat : m.compartment_id = compartment_id}

\* AquaModelApp.process_model, with the project_id AquaModelApp.list adds.
process_model(model) ==
    [compartment_id |-> model.compartment_id, id |-> model.id,
     tags |-> model.freeform_tags,
     is_fine_tuned_model |-> AQUA_FINE_TUNED_MODEL_TAG \in model.freeform_tags]

ModelById(cat, model_id) == CHOOSE m \in cat : m.id = model_id
Exists(cat, model_id) == \E m \in cat : m.id = model_id

\* The error of the SDK call `step`: the injected failure, or the service's
\* 404 for an id that names no model.
CallError(fail, step, found) ==
    IF fail.at = step THEN fail.err
    ELSE IF ~found THEN NotFound
    ELSE [kind |-> "none"]

\* AquaModelApp.get(model_id)
AquaModelApp_get(model_id, fail) ==
    LET err == CallError(fail, "get_model", Exists(catalog, model_id))
        call == [api |-> "get_model", id |-> model_id]
    IN
    /\ aquaOp' = [op |-> "get", id |-> model_id, fail |-> fail]
    /\ IF err.kind # "none"
       THEN /\ aquaOut' = raise_service_error(err) @@ [sdk_error |-> err]
            /\ sdkCalls' = <<call>>
       ELSE LET oci_model == ModelById(catalog, model_id) IN
            IF ~if_show(oci_model)
            THEN /\ aquaOut' = [raised |-> "AquaClientError", model |-> oci_model]
                 /\ sdkCalls' = <<call>>
            ELSE /\ aquaOut' = [raised |-> None, model |-> oci_model,
                                value |-> process_model(oci_model)
                                          @@ [project_id |-> oci_model.project_id,
                                              model_card |-> "README.md"]]
                 /\ sdkCalls' = <<call, [api |-> "get_artifact_path", id |-> model_id],
                                  [api |-> "read_file", id |-> model_id]>>
    /\ UNCHANGED <<catalog, nCreated>>

\* AquaModelApp.list(compartment_id, project_id)
AquaModelApp_list(compartment_id, project_id, fail) ==
    LET step == IF compartment_id # None THEN "search" ELSE "list_models"
        call == IF compartment_id # None
                THEN [api |-> "search", query |-> rqs_query(compartment_id)]
                ELSE [api |-> "list_models", compartment_id |-> ODSC_MODEL_COMPARTMENT_OCID]
        models == IF compartment_id # None
                  THEN search(catalog, rqs_query(compartment_id))
                  ELSE list_models(catalog, ODSC_MODEL_COMPARTMENT_OCID)
    IN
    /\ aquaOp' = [op |-> "list", compartment_id |-> compartment_id, fail |-> fail]
    /\ sdkCalls' = <<call>>
    /\ IF fail.at = step
       THEN aquaOut' = (IF step = "search" THEN raise_service_error(fail.err)
                        ELSE [raised |-> fail.err.kind]) @@ [sdk_error |-> fail.err]
       ELSE aquaOut' = [raised |-> None,
                        value |-> {process_model(m)
                                   @@ [project_id |-> IF project_id # None THEN project_id
                                                      ELSE UNKNOWN] : m \in models}]
    /\ UNCHANGED <<catalog, nCreated>>

\* The test of create, taken as never true
lies_in_target_never(target_model, target_compartment, target_project) == FALSE
\* target_model.compartment_id == target_compartment
\*     and target_model.project_id == target_project
lies_in_target(target_model, target_compartment, target_project) ==
    /\ target_model.compartment_id = target_compartment
    /\ target_model.project_id = target_project

\* AquaModelApp.create(model_id, project_id, comparment_id)
AquaModelApp_create(model_id, project_id, comparment_id, fail) ==
    LET from_id == [api |-> "from_id", id |-> model_id]
        err == CallError(fail, "from_id", Exists(catalog, model_id))
        target_compartment == IF comparment_id # None THEN comparment_id ELSE COMPARTMENT_OCID
        target_project == IF project_id # None THEN project_id ELSE PROJECT_OCID
    IN
    /\ nCreated < MaxCreated
    /\ aquaOp' = [op |-> "create", id |-> model_id, compartment_id |-> target_compartment,
                  project_id |-> target_project, fail |-> fail]
    /\ IF err.kind # "none"
       THEN /\ aquaOut' = raise_service_error(err) @@ [sdk_error |-> err]
            /\ sdkCalls' = <<from_id>>
            /\ UNCHANGED <<catalog, nCreated>>
       ELSE LET target_model == ModelById(catalog, model_id)
                download == [api |-> "download_artifact", id |-> model_id]
                custom_model == [target_model EXCEPT
                                    !.id = <<"new", nCreated + 1>>,
                                    !.compartment_id = target_compartment,
                                    !.project_id = target_project]
            IN
            IF lies_in_target(target_model, target_compartment, target_project)
            THEN /\ aquaOut' = [raised |-> None, value |-> target_model]
                 /\ sdkCalls' = <<from_id>>
                 /\ UNCHANGED <<catalog, nCreated>>
            ELSE IF fail.at = "download_artifact"
            THEN /\ aquaOut' = raise_service_error(fail.err) @@ [sdk_error |-> fail.err]
                 /\ sdkCalls' = <<from_id, download>>
                 /\ UNCHANGED <<catalog, nCreated>>
            ELSE IF fail.at = "create"
            THEN /\ aquaOut' = raise_service_error(fail.err) @@ [sdk_error |-> fail.err]
                 /\ sdkCalls' = <<from_id, download, [api |-> "create", id |-> custom_model.id]>>
                 /\ UNCHANGED <<catalog, nCreated>>
            ELSE /\ aquaOut' = [raised |-> None, value |-> custom_model]
                 /\ sdkCalls' = <<from_id, download, [api |-> "create", id |-> custom_model.id]>>
                 /\ catalog' = catalog \cup {custom_model}
                 /\ nCreated' = nCreated + 1

\* Outcomes of self.ds_client.head_model_artifact: a response with its status,
\* or one of the errors an SDK call raises.
HeadArtifactOutcomes ==
    {[kind |-> "response", status |-> "200"], [kind |-> "response", status |-> "204"]}
    \cup SdkErrors

\* AquaApp.if_artifact_exist: what it returns ("True", "False", or None when
\* it ends without a return statement), or the exception that leaves it.
if_artifact_exist(head) ==
    IF head.kind = "response"
    THEN [raised |-> None, returned |-> IF head.status = "200" THEN "True" ELSE "False"]
    ELSE IF head.kind = "ServiceError"
    THEN IF head.status = "404"
         THEN [raised |-> None, returned |-> "False"]
         ELSE [raised |-> None, returned |-> None]
    ELSE [raised |-> head.kind, returned |-> None]

\* AquaApp.if_artifact_exist(model_id)
AquaApp_if_artifact_exist(model_id, head) ==
    /\ aquaOp' = [op |-> "if_artifact_exist", id |-> model_id, head |-> head]
    /\ aquaOut' = if_artifact_exist(head)
    /\ sdkCalls' = <<[api |-> "head_model_artifact", id |-> model_id]>>
    /\ UNCHANGED <<catalog, nCreated>>

AquaInit ==
    /\ catalog = Pool
    /\ nCreated = 0
    /\ aquaOp = [op |-> "none"]
    /\ aquaOut = NotCalled
    /\ sdkCalls = <<>>

AquaNext ==
    \/ \E id \in ModelIds, f \in Failures({"get_model"}) :
          AquaModelApp_get(id, f) /\ UNCHANGED NotAqua
    \/ \E c \in {None, "c1", "c2"}, p \in {None, "p1"},
          f \in Failures({"search", "list_models"}) :
          AquaModelApp_list(c, p, f) /\ UNCHANGED NotAqua
    \/ \E id \in {<<"svc", 1>>, <<"usr", 1>>, <<"usr", 9>>}, p \in {None, "p2", "p0"},
          c \in {None, "c2", "svc"}, f \in Failures({"from_id", "download_artifact", "create"}) :
          AquaModelApp_create(id, p, c, f) /\ UNCHANGED NotAqua
    \/ \E id \in ModelIds, h \in HeadArtifactOutcomes :
          AquaApp_if_artifact_exist(id, h) /\ UNCHANGED NotAqua

(***************************************************************************)
(* aqua/model.py: the properties                                           *)
(***************************************************************************)
HasAquaTag(tags) == "OCI_AQUA" \in tags \/ "oci_aqua" \in tags

\* C6: a model without the Aqua tag is in no result of AquaModelApp.list, with
\* a compartment_id (resource search) and without one (service models).
C6_UntaggedNeverListed ==
    (aquaOp.op = "list" /\ aquaOut.raised = None) =>
        \A s \in aquaOut.value : HasAquaTag(s.tags)

C8_ListOnlyCompartment ==
    (aquaOp.op = "list" /\ aquaOp.compartment_id # None) =>
        /\ \A i \in DOMAIN sdkCalls :
              /\ sdkCalls[i].api = "search"
              /\ sdkCalls[i].query.compartmentId = aquaOp.compartment_id
        /\ aquaOut.raised = None =>
              \A s \in aquaOut.value : s.compartment_id = aquaOp.compartment_id

\* C8 witness: a list for one compartment has returned a model while a model
\* with the same tags and state lies in another compartment.
C8_Witness ==
    /\ aquaOp.op = "list" /\ aquaOp.compartment_id # None
    /\ aquaOut.raised = None
    /\ aquaOut.value # {}
    /\ \E m \in catalog :
          /\ m.compartment_id # aquaOp.compartment_id
          /\ m.lifecycle_state = "ACTIVE"
          /\ {AQUA_TAG, AQUA_FINE_TUNED_MODEL_TAG} \subseteq m.freeform_tags

\* C9: an exception of the SDK call in get, create or _rqs reaches the caller as
\* the service error with the status of the original error, and the call that
\* failed was made once.
C9_SdkErrorsBecomeServiceErrors ==
    (/\ \/ aquaOp.op \in {"get", "create"}
        \/ aquaOp.op = "list" /\ aquaOp.compartment_id # None
     /\ "sdk_error" \in DOMAIN aquaOut) =>
        /\ aquaOut.raised = "AquaServiceError"
        /\ "status" \in DOMAIN aquaOut.sdk_error =>
              aquaOut.status_code = aquaOut.sdk_error.status
        /\ \A i, j \in DOMAIN sdkCalls : sdkCalls[i].api = sdkCalls[j].api => i = j

\* C19: for every response and every service error of the head request
\* if_artifact_exist returns a boolean: True when the response has status 200
\* and False in every other case.
C19_ArtifactExistIsBoolean ==
    (aquaOp.op = "if_artifact_exist" /\ aquaOp.head.kind \in {"response", "ServiceError"}) =>
        /\ aquaOut.raised = None
        /\ aquaOut.returned \in {"True", "False"}
        /\ (aquaOut.returned = "True") <=>
              (aquaOp.head.kind = "response" /\ aquaOp.head.status = "200")

\* C25: a create call for a model that lies in the target compartment and the
\* target project, when it returns, returns that model, has made no SDK call
\* but the fetch of the model, and leaves the catalog as it was; so no
\* repetition of the call adds a model.
C25_CreateInPlaceAddsNothing ==
    [][(/\ aquaOp'.op = "create"
        /\ aquaOut'.raised = None
        /\ Exists(catalog, aquaOp'.id)
        /\ ModelById(catalog, aquaOp'.id).compartment_id = aquaOp'.compartment_id
        /\ ModelById(catalog, aquaOp'.id).project_id = aquaOp'.project_id)
       => (/\ aquaOut'.value = ModelById(catalog, aquaOp'.id)
           /\ sdkCalls' = <<[api |-> "from_id", id |-> aquaOp'.id]>>
           /\ catalog' = catalog
           /\ nCreated' = nCreated)]_vars

\* C25 witness: create for the service model in its own compartment and
\* project has returned that model after the fetch alone, with no model added.
C25_Witness ==
    /\ aquaOp.op = "create"
    /\ aquaOp.id = <<"svc", 1>>
    /\ aquaOp.compartment_id = "svc" /\ aquaOp.project_id = "p0"
    /\ aquaOut.raised = None
    /\ aquaOut.value.id = <<"svc", 1>>
    /\ sdkCalls = <<[api |-> "from_id", id |-> <<"svc", 1>>]>>
    /\ catalog = Pool


(***************************************************************************)
(* telemetry/client.py                                                     *)
(***************************************************************************)

\* Bound: number of record_event_async calls of one process.
MaxEvents == 2

\* Python truth value of an optional string.
Truthy(s) == s \notin {None, ""}

\* Arguments of record_event / record_event_async.
Categories == {None, "", "telemetry/aqua"}
EventActions == {None, "list"}
EventPaths == {None, "telemetry/conda/delete"}
UserAgents == {"", "version=1"}

\* Outcomes of requests.head: a response with a status code, or an exception.
HeadOutcomes == {[raised |-> None, status_code |-> "200"],
                 [raised |-> None, status_code |-> "404"],
                 [raised |-> "ConnectionError", status_code |-> None]}

\* threading.Thread(target=self.record_event, args=(category, action, path),
\* kwargs=kwargs): a thread that has not been started.
Thread(category, action, path, kwargs) ==
    [target |-> "record_event", category |-> category, action |-> action,
     path |-> path, kwargs |-> kwargs, daemon |-> FALSE, pc |-> "initial",
     object |-> <<>>, exc |-> None, status_code |-> None]

\* The object path record_event asks for: f"{category}/{action}" when both are
\* given, else the path argument (a sequence of the parts joined by "/").
record_event_path(category, action, path) ==
    IF Truthy(category) /\ Truthy(action) THEN <<category, action>>
    ELSE IF Truthy(path) THEN <<path>> ELSE <<>>

\* record_event up to the HEAD request: raises ValueError without a path, else
\* sends the request for the object.
record_event_send(t) ==
    LET path == record_event_path(t.category, t.action, t.path) IN
    IF path = <<>>
    THEN [t EXCEPT !.pc = "raised", !.exc = "ValueError"]
    ELSE [t EXCEPT !.pc = "head_sent", !.object = path]

\* record_event from the answer of requests.head on.
record_event_receive(t, outcome) ==
    IF outcome.raised # None
    THEN [t EXCEPT !.pc = "raised", !.exc = outcome.raised]
    ELSE [t EXCEPT !.pc = "done", !.status_code = outcome.status_code]

\* Mutant: the target is run on the calling thread (Thread.run).
Thread_run(t) ==
    LET sent == record_event_send(t)
        got == IF sent.pc = "raised" THEN sent
               ELSE record_event_receive(sent, [raised |-> None, status_code |-> "200"])
    IN [raised |-> got.exc, thread |-> got]

\* Thread.start(): the thread begins to run its target on its own; the caller
\* gets nothing back from the target.
Thread_start(t) == [raised |-> None, thread |-> [t EXCEPT !.pc = "started"]]

\* TelemetryClient.record_event_async
record_event_async(category, action, path, kwargs) ==
    LET thread == Thread(category, action, path, kwargs)
        daemon == [thread EXCEPT !.daemon = TRUE]
        started == Thread_start(daemon)
    IN  [raised |-> started.raised, thread |-> started.thread]

\* A caller calls record_event_async and gets its result.
RecordEventAsync(category, action, path, kwargs) ==
    /\ Len(telCalls) < MaxEvents
    /\ LET r == record_event_async(category, action, path, kwargs) IN
         /\ telThreads' = Append(telThreads, r.thread)
         /\ telCalls' = Append(telCalls,
                [raised |-> r.raised, value |-> Len(telThreads) + 1,
                 category |-> category, action |-> action, path |-> path,
                 kwargs |-> kwargs, pc_at_return |-> r.thread.pc])

\* A started thread runs record_event up to the HEAD request.
RecordEventSend(i) ==
    /\ telThreads[i].pc = "started"
    /\ telThreads' = [telThreads EXCEPT ![i] = record_event_send(@)]
    /\ UNCHANGED telCalls

\* The HEAD request of a thread is answered, or fails.
RecordEventReceive(i, outcome) ==
    /\ telThreads[i].pc = "head_sent"
    /\ telThreads' = [telThreads EXCEPT ![i] = record_event_receive(@, outcome)]
    /\ UNCHANGED telCalls

TelemetryInit ==
    /\ telCalls = <<>>
    /\ telThreads = <<>>

TelemetryNext ==
    \/ \E c \in Categories, a \in EventActions, p \in EventPaths, k \in UserAgents :
          RecordEventAsync(c, a, p, k) /\ UNCHANGED NotTelemetry
    \/ \E i \in DOMAIN telThreads : RecordEventSend(i) /\ UNCHANGED NotTelemetry
    \/ \E i \in DOMAIN telThreads, o \in HeadOutcomes :
          RecordEventReceive(i, o) /\ UNCHANGED NotTelemetry

\* C11: every record_event_async call has started exactly one daemon thread
\* that runs record_event with the arguments of the call, and has returned
\* that thread, without an exception, while the thread had only been started;
\* whatever the thread does later changes nothing of what the caller got.
C11_AsyncEventNeverBlocksNorRaises ==
    /\ Len(telThreads) = Len(telCalls)
    /\ \A i \in DOMAIN telCalls :
          /\ telCalls[i].raised = None
          /\ telCalls[i].value = i
          /\ telCalls[i].pc_at_return = "started"
          /\ telThreads[i].daemon
          /\ telThreads[i].target = "record_event"
          /\ telThreads[i].category = telCalls[i].category
          /\ telThreads[i].action = telCalls[i].action
          /\ telThreads[i].path = telCalls[i].path
          /\ telThreads[i].kwargs = telCalls[i].kwargs

\* C11 witness: a call has returned whose thread then raised ValueError for
\* the missing path, and the request of another call's thread has failed.
C11_Witness ==
    /\ \E i \in DOMAIN telCalls :
          telCalls[i].raised = None /\ telThreads[i].exc = "ValueError"
    /\ \E j \in DOMAIN telCalls :
          telCalls[j].raised = None /\ telThreads[j].exc = "ConnectionError"


(***************************************************************************)
(* opctl/operator/lowcode/forecast/model/base_model.py                     *)
(***************************************************************************)

\* A log entry: a call of one of the steps of a forecast run.
FcEv(kind, name) == [kind |-> kind, name |-> name]

\* ForecastOperatorSpec: the fields generate_report reads.
ForecastSpecs ==
    [generate_report : BOOLEAN, generate_metrics : BOOLEAN, test_data : BOOLEAN]

\* What a metrics function gives back: an empty frame or one with metrics.
Frames == {"empty", "metrics"}

\* ForecastOperatorBaseModel.__init__: the fields generate_report uses.
ForecastOperatorBaseModel_init ==
    [train_metrics |-> FALSE, eval_metrics |-> None, test_eval_metrics |-> None,
     summary_metrics |-> None, report_sections |-> <<>>]

\* Mutant: the report is saved right after the model is built.
step_after_save_early(pc) ==
    CASE pc = "build_model"           -> "save_report"
      [] pc = "save_report"           -> "evaluate_metrics"
      [] pc = "evaluate_metrics"      -> "test_evaluate_metrics"
      [] pc = "test_evaluate_metrics" -> "report"
      [] pc = "report"                -> "returned"

\* The statement order of generate_report.
step_after(pc) ==
    CASE pc = "build_model"           -> "evaluate_metrics"
      [] pc = "evaluate_metrics"      -> "test_evaluate_metrics"
      [] pc = "test_evaluate_metrics" -> "report"
      [] pc = "report"                -> "save_report"
      [] pc = "save_report"           -> "returned"

\* The blocks of the report, in the order generate_report builds them.
build_report_sections(self) ==
    <<"title_text", "summary">>
    \o (IF self.test_eval_metrics = "metrics" THEN <<"sec7">> ELSE <<>>)
    \o (IF self.summary_metrics = "metrics" THEN <<"sec8">> ELSE <<>>)
    \o (IF self.eval_metrics = "metrics" THEN <<"sec9">> ELSE <<>>)
    \o <<"forecast_plots", "yaml_appendix">>

\* generate_report is called on a new model object.
GenerateReport(spec) ==
    /\ fcPc \in {"idle", "returned", "raised"}
    /\ fcSpec' = spec
    /\ fcSelf' = ForecastOperatorBaseModel_init
    /\ fcLog' = <<>>
    /\ fcPc' = "build_model"

\* result_df = self._build_model(): the subclass fits the models and sets
\* train_metrics, or raises.
BuildModel(train_metrics, fails) ==
    /\ fcPc = "build_model"
    /\ IF fails
       THEN /\ fcLog' = Append(fcLog, FcEv("build", "_build_model"))
            /\ fcPc' = "raised"
            /\ UNCHANGED fcSelf
       ELSE /\ fcLog' = fcLog \o <<FcEv("build", "_build_model"),
                                   FcEv("build_return", "_build_model")>>
            /\ fcSelf' = [fcSelf EXCEPT !.train_metrics = train_metrics]
            /\ fcPc' = step_after(fcPc)
    /\ UNCHANGED fcSpec

\* The training metrics: utils.evaluate_metrics, when asked for.
EvaluateMetrics(frame, fails) ==
    /\ fcPc = "evaluate_metrics"
    /\ IF (fcSpec.generate_report \/ fcSpec.generate_metrics) /\ fcSelf.train_metrics
       THEN /\ fcLog' = Append(fcLog, FcEv("metric", "evaluate_metrics"))
            /\ IF fails
               THEN fcPc' = "raised" /\ UNCHANGED fcSelf
               ELSE /\ fcSelf' = [fcSelf EXCEPT !.eval_metrics = frame]
                    /\ fcPc' = step_after(fcPc)
       ELSE /\ fcPc' = step_after(fcPc)
            /\ UNCHANGED <<fcLog, fcSelf>>
    /\ UNCHANGED fcSpec

\* The test metrics: self._test_evaluate_metrics, when there is test data.
TestEvaluateMetrics(frame, fails) ==
    /\ fcPc = "test_evaluate_metrics"
    /\ IF (fcSpec.generate_report \/ fcSpec.generate_metrics) /\ fcSpec.test_data
       THEN /\ fcLog' = Append(fcLog, FcEv("metric", "_test_evaluate_metrics"))
            /\ IF fails
               THEN fcPc' = "raised" /\ UNCHANGED fcSelf
               ELSE /\ fcSelf' = [fcSelf EXCEPT !.test_eval_metrics = frame,
                                                !.summary_metrics = frame]
                    /\ fcPc' = step_after(fcPc)
       ELSE /\ fcPc' = step_after(fcPc)
            /\ UNCHANGED <<fcLog, fcSelf>>
    /\ UNCHANGED fcSpec

\* The report: self._generate_report() and the blocks built around it.
RenderReport(fails) ==
    /\ fcPc = "report"
    /\ IF fcSpec.generate_report
       THEN IF fails
            THEN /\ fcLog' = Append(fcLog, FcEv("section", "_generate_report"))
                 /\ fcPc' = "raised"
                 /\ UNCHANGED fcSelf
            ELSE LET sections == build_report_sections(fcSelf) IN
                 /\ fcLog' = fcLog \o <<FcEv("section", "_generate_report")>>
                                   \o [i \in DOMAIN sections |-> FcEv("section", sections[i])]
                 /\ fcSelf' = [fcSelf EXCEPT !.report_sections =
                                  <<"title_text", "summary", "forecast_plots", "other_sections">>
                                  \o SubSeq(sections, 3, Len(sections) - 2)
                                  \o <<"yaml_appendix">>]
                 /\ fcPc' = step_after(fcPc)
       ELSE /\ fcPc' = step_after(fcPc)
            /\ UNCHANGED <<fcLog, fcSelf>>
    /\ UNCHANGED fcSpec

\* self._save_report(report_sections, result_df, metrics_df, test_metrics_df)
SaveReport(fails) ==
    /\ fcPc = "save_report"
    /\ fcLog' = Append(fcLog, FcEv("save", "_save_report"))
    /\ fcPc' = IF fails THEN "raised" ELSE step_after(fcPc)
    /\ UNCHANGED <<fcSpec, fcSelf>>

ForecastInitBase ==
    /\ fcSpec = [generate_report |-> FALSE, generate_metrics |-> FALSE, test_data |-> FALSE]
    /\ fcSelf = ForecastOperatorBaseModel_init
    /\ fcPc = "idle"
    /\ fcLog = <<>>

\* C12: in a run of generate_report nothing is computed or rendered before
\* _build_model has returned, every metric and every report section precedes
\* the call of _save_report, _save_report is called at most once, and a run
\* that has returned has called it exactly once, as its last step.
C12_ReportStepsInOrder ==
    LET saves == {i \in DOMAIN fcLog : fcLog[i].kind = "save"}
        work == {i \in DOMAIN fcLog : fcLog[i].kind \in {"metric", "section"}}
        built == {i \in DOMAIN fcLog : fcLog[i].kind = "build_return"}
    IN  /\ \A i \in work : \E j \in built : j < i
        /\ \A i \in saves : \E j \in built : j < i
        /\ \A i \in saves, j \in work : j < i
        /\ Cardinality(saves) <= 1
        /\ fcPc = "returned" => (Cardinality(saves) = 1 /\ Len(fcLog) \in saves)
        /\ fcPc \in {"evaluate_metrics", "test_evaluate_metrics", "report"} => saves = {}

\* C12 witness: a run with training metrics, test metrics and a report has
\* returned.
C12_Witness ==
    /\ fcPc = "returned"
    /\ \E i \in DOMAIN fcLog : fcLog[i].name = "evaluate_metrics"
    /\ \E i \in DOMAIN fcLog : fcLog[i].name = "_test_evaluate_metrics"
    /\ \E i \in DOMAIN fcLog : fcLog[i].name = "sec9"
    /\ \E i \in DOMAIN fcLog : fcLog[i].kind = "save"

(***************************************************************************)
(* operators/forecast/forecast.py                                          *)
(***************************************************************************)

AVAILABLE_MODELS == <<"prophet", "neuralprophet", "arima">>

\* args["forecast"]["model"] and whether args["test_data"]["url"] is given.
ForecastArgs ==
    [model : {"prophet", "Prophet", "NeuralProphet", "ARIMA", "automl", ""},
     test_url : BOOLEAN]

\* Mutant: the configured model name is kept as written.
ForecastOperator_model_verbatim(args) == args.model

\* ForecastOperator.__init__: self.model
ForecastOperator_model(args) == Lower(args.model)

\* ForecastOperator.__init__
ForecastOperator_init(args) ==
    [model |-> ForecastOperator_model(args), test_filename |-> args.test_url]

\* ForecastOperator.generate_report: the calls it makes, in order.
ForecastOperator_generate_report(self) ==
    <<FcEv("report", "generate_report")>>
    \o (CASE self.model = "prophet" -> <<FcEv("section", "get_prophet_report")>>
          [] self.model = "neuralprophet" -> <<FcEv("section", "get_neuralprophet_report")>>
          [] OTHER -> <<>>)
    \o <<FcEv("section", "summary")>>
    \o (IF self.model # "arima" THEN <<FcEv("metric", "evaluate_metrics")>> ELSE <<>>)
    \o (IF self.test_filename THEN <<FcEv("metric", "test_evaluate_metrics")>> ELSE <<>>)
    \o <<FcEv("section", "yaml_appendix"), FcEv("save", "dp.save_report")>>

\* ForecastOperator.build_model: the exception it ends with (None when it
\* returns) and the calls it has made, in order.
ForecastOperator_build_model(self, adapter_fails) ==
    LET view == <<FcEv("view", "My report 3")>>
        adapter == CASE self.model = "prophet" -> "prophet_operate"
                     [] self.model = "neuralprophet" -> "neuralprophet_operate"
                     [] self.model = "arima" -> "arima_operate"
                     [] OTHER -> None
    IN  IF adapter = None
        THEN [raised |-> "ValueError", log |-> view]
        ELSE IF adapter_fails
        THEN [raised |-> "Exception", log |-> view \o <<FcEv("adapter", adapter)>>]
        ELSE [raised |-> None,
              log |-> view \o <<FcEv("adapter", adapter)>>
                           \o ForecastOperator_generate_report(self)]

\* operate(args)
Operate(args, adapter_fails) ==
    LET r == ForecastOperator_build_model(ForecastOperator_init(args), adapter_fails) IN
    opOut' = [called |-> TRUE, model |-> args.model, raised |-> r.raised, log |-> r.log]

ForecastInit ==
    /\ ForecastInitBase
    /\ opOut = [called |-> FALSE, model |-> None, raised |-> None, log |-> <<>>]

ForecastNext ==
    \/ \E s \in ForecastSpecs : GenerateReport(s) /\ UNCHANGED <<opOut, NotForecast>>
    \/ \E t, f \in BOOLEAN : BuildModel(t, f) /\ UNCHANGED <<opOut, NotForecast>>
    \/ \E d \in Frames, f \in BOOLEAN : EvaluateMetrics(d, f) /\ UNCHANGED <<opOut, NotForecast>>
    \/ \E d \in Frames, f \in BOOLEAN : TestEvaluateMetrics(d, f) /\ UNCHANGED <<opOut, NotForecast>>
    \/ \E f \in BOOLEAN : RenderReport(f) /\ UNCHANGED <<opOut, NotForecast>>
    \/ \E f \in BOOLEAN : SaveReport(f) /\ UNCHANGED <<opOut, NotForecast>>
    \/ \E a \in ForecastArgs, f \in BOOLEAN :
          Operate(a, f) /\ UNCHANGED <<fcSpec, fcSelf, fcPc, fcLog, NotForecast>>

\* The index of a model name in AVAILABLE_MODELS, 0 when it is not there.
AvailableIndex(name) ==
    IF \E i \in DOMAIN AVAILABLE_MODELS : AVAILABLE_MODELS[i] = name
    THEN CHOOSE i \in DOMAIN AVAILABLE_MODELS : AVAILABLE_MODELS[i] = name
    ELSE 0

\* C13: build_model runs exactly one adapter, the one of the lower-cased model
\* name, when that name is prophet, neuralprophet or arima; for every other
\* name it raises ValueError, runs no adapter, and no report is generated or
\* saved.
C13_DispatchOnLowerCasedModel ==
    opOut.called =>
        LET adapters == {i \in DOMAIN opOut.log : opOut.log[i].kind = "adapter"}
            k == AvailableIndex(Lower(opOut.model))
        IN  IF k # 0
            THEN /\ Cardinality(adapters) = 1
                 /\ \A i \in adapters :
                       opOut.log[i].name = <<"prophet_operate", "neuralprophet_operate",
                                             "arima_operate">>[k]
                 /\ opOut.raised # "ValueError"
            ELSE /\ opOut.raised = "ValueError"
                 /\ \A i \in DOMAIN opOut.log :
                       opOut.log[i].kind \notin {"adapter", "report", "section", "metric", "save"}

\* C13 witness: a run whose model name is not written in lower case has run
\* the adapter of that name and has returned.
C13_Witness ==
    /\ opOut.called
    /\ opOut.model = "ARIMA"
    /\ \E i \in DOMAIN opOut.log : opOut.log[i].name = "arima_operate"
    /\ opOut.raised = None


(***************************************************************************)
(* aqua/extension/model_handler.py                                         *)
(***************************************************************************)

\* A request argument or a key of the JSON body that is not there.
Absent == "<absent>"

\* raise HTTPError(status_code, message)
HTTPError(status_code, message) ==
    [raised |-> "HTTPError", status_code |-> status_code, message |-> message]

\* raise of another exception class.
Raised(exc) == [raised |-> exc]

\* self.finish(value): the handler answers with the value.
Finish(value) == [raised |-> None, finished |-> value]

\* A call of the AquaModelApp facade (or of the Hugging Face API) by a handler.
Call(api, args) == [api |-> api, args |-> args]

\* Request paths, split at "/": "/aqua/model/files" is <<"", "aqua", "model", "files">>.
RequestPaths ==
    {<<"", "aqua", "model">>,
     <<"", "aqua", "model", "files">>,
     <<"", "aqua", "model", "files", "">>,
     <<"", "aqua", "model", "filesystem">>,
     <<"", "aqua", "model", "cache">>,
     <<"aqua", "model", "cached", "">>,
     <<"", "aqua", "model", "ocid1">>,
     <<"", "aqua", "files">>}

\* str.strip("/") on a split path: the empty parts at both ends are dropped.
RECURSIVE lstrip(_)
lstrip(parts) ==
    IF parts # <<>> /\ Head(parts) = "" THEN lstrip(Tail(parts)) ELSE parts

RECURSIVE rstrip(_)
rstrip(parts) ==
    IF parts # <<>> /\ parts[Len(parts)] = ""
    THEN rstrip(SubSeq(parts, 1, Len(parts) - 1)) ELSE parts

strip(parts) == rstrip(lstrip(parts))

\* str.startswith on one part of a path.
part_startswith(part, prefix) ==
    \/ part = prefix
    \/ <<part, prefix>> \in {<<"filesystem", "files">>, <<"cached", "cache">>}

\* str.startswith on split paths: the parts before the last one of the prefix
\* are equal, and the part at its last one starts with it.
startswith(parts, prefix) ==
    /\ Len(parts) >= Len(prefix)
    /\ \A i \in 1..(Len(prefix) - 1) : parts[i] = prefix[i]
    /\ part_startswith(parts[Len(prefix)], prefix[Len(prefix)])

\* self.get_argument(name) without a default: tornado raises
\* MissingArgumentError, an HTTPError with status 400, when it is not given.
get_argument(args, name) ==
    IF args[name] = Absent
    THEN HTTPError(400, <<"MissingArgumentError", name>>)
    ELSE [raised |-> None, value |-> args[name]]

\* self.get_argument(name, default=None)
get_argument_default(args, name) == IF args[name] = Absent THEN None ELSE args[name]

\* str.upper() on the model formats of the requests.
Upper(s) ==
    CASE s = "gguf" -> "GGUF"
      [] s = "SafeTensors" -> "SAFETENSORS"
      [] s = "zip" -> "ZIP"
      [] OTHER -> s

\* The values of the ModelFormat enumeration.
ModelFormats == {"GGUF", "SAFETENSORS", "UNKNOWN"}

\* Outcomes of a facade call: it returns, or it raises.
FacadeOutcomes == {None, "AquaRuntimeError"}

\* What a handler gives back for a facade call with the given outcome.
finish_call(outcome, value) == IF outcome = None THEN Finish(value) ELSE Raised(outcome)

\* The arguments of GET requests.
GetArguments ==
    [os_path : {Absent, "", "oci://b@n/p"},
     model_format : {Absent, "", "gguf", "SafeTensors", "zip"},
     compartment_id : {Absent, "c1"}]

\* AquaModelHandler.list
AquaModelHandler_list(args, outcome) ==
    [out |-> finish_call(outcome, "models"),
     calls |-> <<Call("list", [compartment_id |-> get_argument_default(args, "compartment_id")])>>]

\* AquaModelHandler.read
AquaModelHandler_read(model_id, outcome) ==
    [out |-> finish_call(outcome, "model"),
     calls |-> <<Call("get", [model_id |-> model_id])>>]

\* Mutant: an empty model_id is not looked at.
IsListRequest_never(model_id) == FALSE

\* AquaModelHandler.get: the test `not model_id`.
IsListRequest(model_id) == ~Truthy(model_id)

\* AquaModelHandler.get
AquaModelHandler_get(path, model_id, args, outcome) ==
    LET paths == strip(path) IN
    IF startswith(paths, <<"aqua", "model", "files">>)
    THEN LET os_path == get_argument(args, "os_path")
             model_format == get_argument(args, "model_format")
         IN  IF os_path.raised # None THEN [out |-> os_path, calls |-> <<>>]
             ELSE IF ~Truthy(os_path.value)
             THEN [out |-> HTTPError(400, <<"MISSING_REQUIRED_PARAMETER", "os_path">>),
                   calls |-> <<>>]
             ELSE IF model_format.raised # None THEN [out |-> model_format, calls |-> <<>>]
             ELSE IF ~Truthy(model_format.value)
             THEN [out |-> HTTPError(400, <<"MISSING_REQUIRED_PARAMETER", "model_format">>),
                   calls |-> <<>>]
             ELSE IF Upper(model_format.value) \notin ModelFormats
             THEN [out |-> Raised("AquaValueError"), calls |-> <<>>]
             ELSE [out |-> finish_call(outcome, "files"),
                   calls |-> <<Call("get_model_files",
                                    [os_path |-> os_path.value,
                                     model_format |-> Upper(model_format.value)])>>]
    ELSE IF IsListRequest(model_id) THEN AquaModelHandler_list(args, outcome)
    ELSE AquaModelHandler_read(model_id, outcome)

\* AquaModelApp().clear_model_list_cache(): the cache after the call.
clear_model_list_cache(cache) == {}

\* Mutant: every path clears the cache.
IsCachePath_always(paths) == TRUE

\* AquaModelHandler.delete: the test on the path.
IsCachePath(paths) == startswith(paths, <<"aqua", "model", "cache">>)

\* AquaModelHandler.delete: the answer, the facade calls and the cache after it.
AquaModelHandler_delete(path, cache) ==
    LET paths == strip(path) IN
    IF IsCachePath(paths)
    THEN [out |-> Finish("cleared"), calls |-> <<Call("clear_model_list_cache", <<>>)>>,
          cache |-> clear_model_list_cache(cache)]
    ELSE [out |-> HTTPError(400, <<"The request is invalid", path>>), calls |-> <<>>,
          cache |-> cache]

\* Request bodies: not JSON, no body, a JSON array, a JSON string, and JSON
\* objects with some of the keys the handlers read.
JsonBodies ==
    {[kind |-> "invalid"], [kind |-> "absent"]}
    \cup [kind : {"array"}, items : {<<>>, <<"m">>}]
    \cup [kind : {"string"}, text : {"", "m"}]
    \cup [kind : {"object"},
          model : {Absent, "", "m"},
          os_path : {Absent, "", "oci://b@n/p"},
          download_from_hf : {Absent, "True"},
          model_id : {Absent, "", "Org/Model"}]

\* The keys of a JSON object of JsonBodies.
BodyKeys == {"model", "os_path", "download_from_hf", "model_id"}

\* self.get_json_body(): HTTPError 400 when the body is not JSON, None when
\* there is no body, else the parsed value.
get_json_body(body) ==
    IF body.kind = "invalid"
    THEN HTTPError(400, <<"Invalid JSON in body of request">>)
    ELSE [raised |-> None, value |-> body]

\* `not input_data` for a parsed body.
IsEmptyInput(input_data) ==
    CASE input_data.kind = "absent" -> TRUE
      [] input_data.kind = "array"  -> input_data.items = <<>>
      [] input_data.kind = "string" -> input_data.text = ""
      [] input_data.kind = "object" -> \A k \in BodyKeys : input_data[k] = Absent

\* input_data.get(key, default) on a JSON object.
dict_get(input_data, key, default_value) ==
    IF input_data[key] = Absent THEN default_value ELSE input_data[key]

\* The part of both post handlers up to the first input_data.get: the
\* exception it ends with, or None.
parse_input(body) ==
    LET input_data == get_json_body(body) IN
    IF input_data.raised # None
    THEN HTTPError(400, <<"INVALID_INPUT_DATA_FORMAT">>)
    ELSE IF IsEmptyInput(input_data.value)
    THEN HTTPError(400, <<"NO_INPUT_DATA">>)
    ELSE IF input_data.value.kind # "object"
    THEN Raised("AttributeError")
    ELSE [raised |-> None]

\* AquaModelHandler.post
AquaModelHandler_post(body, outcome) ==
    LET parsed == parse_input(body) IN
    IF parsed.raised # None THEN [out |-> parsed, calls |-> <<>>]
    ELSE
    LET model == dict_get(body, "model", None)
        os_path == dict_get(body, "os_path", None)
        download_from_hf == Lower(dict_get(body, "download_from_hf", "false")) = "true"
    IN  IF ~Truthy(model)
        THEN [out |-> HTTPError(400, <<"MISSING_REQUIRED_PARAMETER", "model">>),
              calls |-> <<>>]
        ELSE IF ~Truthy(os_path)
        THEN [out |-> HTTPError(400, <<"MISSING_REQUIRED_PARAMETER", "os_path">>),
              calls |-> <<>>]
        ELSE [out |-> finish_call(outcome, "registered"),
              calls |-> <<Call("register", [model |-> model, os_path |-> os_path,
                                            download_from_hf |-> download_from_hf])>>]

\* ModelTask.TEXT_GENERATION
TEXT_GENERATION == "text-generation"

\* The classes of the exceptions HfApi.model_info raises, with their bases.
HfMro(exc) ==
    CASE exc = "RepositoryNotFoundError" -> {"RepositoryNotFoundError", "HfHubHTTPError"}
      [] exc = "GatedRepoError" -> {"GatedRepoError", "RepositoryNotFoundError", "HfHubHTTPError"}
      [] exc = "RevisionNotFoundError" -> {"RevisionNotFoundError", "HfHubHTTPError"}
      [] exc = "HfHubHTTPError" -> {"HfHubHTTPError"}
      [] OTHER -> {exc}

\* Outcomes of HfApi(token=token).model_info(model_id): the model info, or an
\* exception (an HTTP error of the hub, or a failure to reach it).
HfOutcomes ==
    [raised : {None}, id : {"Org/Model"}, disabled : BOOLEAN,
     pipeline_tag : {None, "text-generation", "Text-Generation", "text-classification"}]
    \cup [raised : {"RepositoryNotFoundError", "GatedRepoError", "RevisionNotFoundError",
                    "HfHubHTTPError", "ConnectionError"}]

\* AquaHuggingFaceHandler._format_custom_error_message
format_custom_error_message(error) ==
    IF "RepositoryNotFoundError" \in HfMro(error)
    THEN [raised |-> "AquaRuntimeError", service_payload |-> "RepositoryNotFoundError"]
    ELSE IF "GatedRepoError" \in HfMro(error)
    THEN [raised |-> "AquaRuntimeError", service_payload |-> "GatedRepoError"]
    ELSE IF "RevisionNotFoundError" \in HfMro(error)
    THEN [raised |-> "AquaRuntimeError", service_payload |-> "RevisionNotFoundError"]
    ELSE [raised |-> "AquaRuntimeError", service_payload |-> "Error"]

\* AquaHuggingFaceHandler._find_matching_aqua_model: match is the OCID the
\* facade finds for the lower-cased id, or None.
find_matching_aqua_model(model_id, match, outcome) ==
    LET model_id_lower == Lower(model_id)
        find == Call("_find_matching_aqua_model", [model_id |-> model_id_lower])
    IN  IF match = None
        THEN [raised |-> None, value |-> None, calls |-> <<find>>]
        ELSE [raised |-> outcome, value |-> match,
              calls |-> <<find, Call("get", [model_id |-> match])>>]

\* `except HfHubHTTPError as err`
IsHfHubHTTPError(exc) == "HfHubHTTPError" \in HfMro(exc)

\* AquaHuggingFaceHandler.post
AquaHuggingFaceHandler_post(body, hf, match, outcome) ==
    LET parsed == parse_input(body) IN
    IF parsed.raised # None THEN [out |-> parsed, calls |-> <<>>]
    ELSE
    LET model_id == dict_get(body, "model_id", None)
        model_info == <<Call("model_info", [model_id |-> model_id])>>
    IN  IF ~Truthy(model_id)
        THEN [out |-> HTTPError(400, <<"MISSING_REQUIRED_PARAMETER", "model_id">>),
              calls |-> <<>>]
        ELSE IF hf.raised # None
        THEN IF IsHfHubHTTPError(hf.raised)
             THEN [out |-> format_custom_error_message(hf.raised), calls |-> model_info]
             ELSE [out |-> Raised(hf.raised), calls |-> model_info]
        ELSE IF hf.disabled
        THEN [out |-> [raised |-> "AquaRuntimeError", service_payload |-> "disabled"],
              calls |-> model_info]
        ELSE IF ~Truthy(hf.pipeline_tag) \/ Lower(hf.pipeline_tag) # TEXT_GENERATION
        THEN [out |-> [raised |-> "AquaRuntimeError", service_payload |-> "pipeline_tag"],
              calls |-> model_info]
        ELSE LET aqua_model_info == find_matching_aqua_model(hf.id, match, outcome) IN
             [out |-> IF aqua_model_info.raised # None
                      THEN Raised(aqua_model_info.raised)
                      ELSE Finish([model_info |-> hf,
                                   aqua_model_info |-> aqua_model_info.value]),
              calls |-> model_info \o aqua_model_info.calls]

\* AquaModelApp().list(...): the facade keeps the list it returns in its cache.
cache_models(cache, calls, out) ==
    IF calls # <<>> /\ calls[1].api = "list" /\ out.raised = None
    THEN cache \cup {out.finished}
    ELSE cache

\* A GET request is handled.
HandleGet(path, model_id, args, outcome) ==
    LET r == AquaModelHandler_get(path, model_id, args, outcome) IN
    /\ hReq' = [op |-> "get", path |-> path, model_id |-> model_id, args |-> args,
                cache_before |-> modelListCache]
    /\ hOut' = r.out
    /\ hCalls' = r.calls
    /\ modelListCache' = cache_models(modelListCache, r.calls, r.out)

\* A DELETE request is handled.
HandleDelete(path) ==
    LET r == AquaModelHandler_delete(path, modelListCache) IN
    /\ hReq' = [op |-> "delete", path |-> path, cache_before |-> modelListCache]
    /\ hOut' = r.out
    /\ hCalls' = r.calls
    /\ modelListCache' = r.cache

\* A POST request is handled by AquaModelHandler.
HandlePost(body, outcome) ==
    LET r == AquaModelHandler_post(body, outcome) IN
    /\ hReq' = [op |-> "post", body |-> body, cache_before |-> modelListCache]
    /\ hOut' = r.out
    /\ hCalls' = r.calls
    /\ UNCHANGED modelListCache

\* A POST request is handled by AquaHuggingFaceHandler.
HandleHfPost(body, hf, match, outcome) ==
    LET r == AquaHuggingFaceHandler_post(body, hf, match, outcome) IN
    /\ hReq' = [op |-> "hf_post", body |-> body, hf |-> hf,
                cache_before |-> modelListCache]
    /\ hOut' = r.out
    /\ hCalls' = r.calls
    /\ UNCHANGED modelListCache

\* The paths of the GET requests.
GetPaths ==
    {p \in RequestPaths : Len(strip(p)) # 3 \/ strip(p)[3] \in {"files", "filesystem", "ocid1"}}

\* The bodies given to the Hugging Face handler: those without the keys of
\* the register request.
HfBodies ==
    {b \in JsonBodies :
        b.kind = "object" => (b.model = Absent /\ b.os_path = Absent
                              /\ b.download_from_hf = Absent)}

\* What the facade finds for a Hugging Face model, and the outcome of its get.
MatchOutcomes == {<<None, None>>, <<"ocid1", None>>, <<"ocid1", "AquaRuntimeError">>}

HandlerInit ==
    /\ hReq = [op |-> "none"]
    /\ hOut = [raised |-> None]
    /\ hCalls = <<>>
    /\ modelListCache = {}

HandlerNext ==
    \/ \E p \in GetPaths, id \in {"", "ocid1"}, a \in GetArguments,
          o \in FacadeOutcomes :
          HandleGet(p, id, a, o) /\ UNCHANGED NotHandler
    \/ \E p \in RequestPaths : HandleDelete(p) /\ UNCHANGED NotHandler
    \/ \E b \in JsonBodies, o \in FacadeOutcomes :
          HandlePost(b, o) /\ UNCHANGED NotHandler
    \/ \E b \in HfBodies, hf \in HfOutcomes, m \in MatchOutcomes :
          HandleHfPost(b, hf, m[1], m[2]) /\ UNCHANGED NotHandler

\* A key of a JSON body has a non-empty value.
HasValue(body, key) == body.kind = "object" /\ body[key] \notin {Absent, ""}

\* C14: post calls register, once and with the model and os_path of the body,
\* when the body is JSON, not empty, and has a non-empty model and os_path;
\* in every other case it raises HTTP 400 with the message of the first check
\* that fails (format, presence, model, os_path) and does not call register.
C14_PostRegistersOnlyValidInput ==
    hReq.op = "post" =>
        LET body == hReq.body IN
        IF HasValue(body, "model") /\ HasValue(body, "os_path")
        THEN /\ Len(hCalls) = 1
             /\ hCalls[1].api = "register"
             /\ hCalls[1].args.model = body.model
             /\ hCalls[1].args.os_path = body.os_path
        ELSE /\ hCalls = <<>>
             /\ hOut.raised = "HTTPError"
             /\ hOut.status_code = 400
             /\ hOut.message =
                  (CASE body.kind = "invalid" -> <<"INVALID_INPUT_DATA_FORMAT">>
                     [] body.kind # "invalid" /\ IsEmptyInput(body) -> <<"NO_INPUT_DATA">>
                     [] body.kind # "invalid" /\ ~IsEmptyInput(body)
                          /\ ~HasValue(body, "model") -> <<"MISSING_REQUIRED_PARAMETER", "model">>
                     [] OTHER -> <<"MISSING_REQUIRED_PARAMETER", "os_path">>)

\* C15: get makes at most one facade call; a path that starts with
\* aqua/model/files goes to get_model_files, and only with an os_path and a
\* model format of the enumeration (another format raises AquaValueError);
\* any other path goes to list when model_id is empty and to get(model_id)
\* when it is not.
C15_GetRoutesToOneFacadeCall ==
    hReq.op = "get" =>
        /\ Len(hCalls) <= 1
        /\ IF startswith(strip(hReq.path), <<"aqua", "model", "files">>)
           THEN /\ \A i \in DOMAIN hCalls :
                      /\ hCalls[i].api = "get_model_files"
                      /\ hCalls[i].args.os_path = hReq.args.os_path
                      /\ hCalls[i].args.os_path \notin {Absent, ""}
                      /\ hCalls[i].args.model_format \in ModelFormats
                /\ hCalls = <<>> => hOut.raised \in {"HTTPError", "AquaValueError"}
                /\ (/\ hReq.args.os_path \notin {Absent, ""}
                    /\ hReq.args.model_format \in {"zip"}) => hOut.raised = "AquaValueError"
           ELSE /\ Len(hCalls) = 1
                /\ IF hReq.model_id = ""
                   THEN /\ hCalls[1].api = "list"
                   ELSE /\ hCalls[1].api = "get"
                        /\ hCalls[1].args.model_id = hReq.model_id

\* C15 witness: a request for the files of a model with a model format that
\* is not of the enumeration has raised the value error, without a facade call.
C15_Witness ==
    /\ hReq.op = "get"
    /\ startswith(strip(hReq.path), <<"aqua", "model", "files">>)
    /\ hReq.args.model_format = "zip"
    /\ hOut.raised = "AquaValueError"
    /\ hCalls = <<>>

C17_HfPostOnlyTextGeneration ==
    hReq.op = "hf_post" =>
        LET body == hReq.body
            hf == hReq.hf
        IN  /\ hOut.raised = None =>
                  /\ hf.raised = None
                  /\ ~hf.disabled
                  /\ hf.pipeline_tag \in {"text-generation", "Text-Generation"}
            /\ (body.kind = "object" /\ ~IsEmptyInput(body) /\ ~HasValue(body, "model_id")) =>
                  /\ hOut.raised = "HTTPError"
                  /\ hOut.status_code = 400
                  /\ hCalls = <<>>
            /\ (/\ HasValue(body, "model_id")
                /\ \/ hf.raised # None
                   \/ hf.disabled
                   \/ hf.pipeline_tag \notin {"text-generation", "Text-Generation"}) =>
                  /\ hOut.raised = "AquaRuntimeError"
                  /\ Len(hCalls) = 1
                  /\ hCalls[1].api = "model_info"


(***************************************************************************)
(* model/artifact_downloader.py                                            *)
(***************************************************************************)

\* File names in the target directory.
FileNames == {"score.py", "runtime.yaml", "model.pkl"}

\* What is at the path target_dir: nothing, a file, or a directory and the
\* names in it.
NoDir == [kind |-> "absent", files |-> {}]
Dir(files) == [kind |-> "dir", files |-> files]
TargetStates == {NoDir, [kind |-> "file", files |-> {}]} \cup {Dir(fs) : fs \in SUBSET FileNames}

\* Values of the force_overwrite argument (Optional[bool]).
ForceValues == {"True", "False", None}

\* Mutant: the directory is overwritten whatever force_overwrite is.
not_force_overwrite_never(force_overwrite) == FALSE

\* `not self.force_overwrite`
not_force_overwrite(force_overwrite) == force_overwrite # "True"

\* shutil.rmtree(target_dir): the directory is gone, or the call fails and
\* nothing is removed.
rmtree(fs, fails) ==
    IF fails THEN [raised |-> "OSError", fs |-> fs] ELSE [raised |-> None, fs |-> NoDir]

\* os.makedirs(target_dir, exist_ok=True)
makedirs(fs) == IF fs.kind = "absent" THEN Dir({}) ELSE fs

\* self._download(): the artifact files it writes to the directory before it
\* returns or raises.
Downloads ==
    [raised : {None, "Exception"}, written : {{}, {"model.pkl"}, {"model.pkl", "score.py"}}]

\* ArtifactDownloader.download: the exception it ends with, the target
\* directory after it, and the directory _download was given (NoDir when
\* _download was not called).
ArtifactDownloader_download(fs, force_overwrite, rmtree_fails, dl) ==
    IF fs.kind = "file"
    THEN [raised |-> "NotADirectoryError", fs |-> fs, download_called |-> FALSE,
          dir_at_download |-> NoDir]
    ELSE
    LET occupied == fs.kind # "absent" /\ Cardinality(fs.files) > 0
        removed == IF occupied THEN rmtree(fs, rmtree_fails)
                   ELSE [raised |-> None, fs |-> fs]
    IN  IF occupied /\ not_force_overwrite(force_overwrite)
        THEN [raised |-> "ValueError", fs |-> fs, download_called |-> FALSE,
              dir_at_download |-> NoDir]
        ELSE IF removed.raised # None
        THEN [raised |-> removed.raised, fs |-> removed.fs, download_called |-> FALSE,
              dir_at_download |-> NoDir]
        ELSE LET made == makedirs(removed.fs) IN
             [raised |-> dl.raised, fs |-> Dir(made.files \cup dl.written),
              download_called |-> TRUE, dir_at_download |-> made]

\* download() is called on a downloader for the target directory.
Download(force_overwrite, rmtree_fails, dl) ==
    LET r == ArtifactDownloader_download(fsTarget, force_overwrite, rmtree_fails, dl) IN
    /\ fsTarget' = r.fs
    /\ dlOut' = [called |-> TRUE, force_overwrite |-> force_overwrite, before |-> fsTarget,
                 raised |-> r.raised, download_called |-> r.download_called,
                 dir_at_download |-> r.dir_at_download, after |-> r.fs]

\* Something else changes what is at the path.
ChangeTarget(fs) ==
    /\ fsTarget' = fs
    /\ UNCHANGED dlOut

DownloaderInit ==
    /\ fsTarget = NoDir
    /\ dlOut = [called |-> FALSE]

DownloaderNext ==
    \/ \E f \in ForceValues, rf \in BOOLEAN, dl \in Downloads :
          Download(f, rf, dl) /\ UNCHANGED NotDownloader
    \/ \E fs \in TargetStates : ChangeTarget(fs) /\ UNCHANGED NotDownloader

MaxRows == 2

\* A Python str is the sequence of its pieces of text; + on str is \o.
\* The rows a table can hold: two integer columns, a and b.
RowValues == {<<1, 2>>, <<3, 4>>}

\* The commands given to run: two queries of the table t, a query of a table
\* that does not exist, and text that is not SQL.
SqlCommands == {"SELECT * FROM t", "SELECT a FROM t", "SELECT * FROM missing", "SELEC"}

FetchValues == {"all", "one", "many"}

\* What can end df.collect() early: a failed Spark job, or the user
\* interrupting the interpreter while the job runs.
CollectFaults == {None, "Py4JJavaError", "KeyboardInterrupt"}

NoException == [cls |-> None, msg |-> <<>>]

\* The base classes of the exception classes the Spark session raises.
SqlErrorMro(cls) ==
    CASE cls = "ParseException" ->
            {"ParseException", "AnalysisException", "CapturedException",
             "PySparkException", "Exception", "BaseException"}
      [] cls = "AnalysisException" ->
            {"AnalysisException", "CapturedException", "PySparkException",
             "Exception", "BaseException"}
      [] cls = "Py4JJavaError" ->
            {"Py4JJavaError", "Py4JError", "Exception", "BaseException"}
      [] cls = "KeyboardInterrupt" -> {"KeyboardInterrupt", "BaseException"}
      [] OTHER -> {}

\* self._spark.sql(command): the DataFrame of the query, or the exception of
\* the parser or the analyzer.
spark_sql(table, command) ==
    CASE command = "SELECT * FROM t" -> [raised |-> NoException, df |-> table]
      [] command = "SELECT a FROM t" ->
            [raised |-> NoException, df |-> [i \in DOMAIN table |-> <<table[i][1]>>]]
      [] command = "SELECT * FROM missing" ->
            [raised |-> [cls |-> "AnalysisException",
                         msg |-> <<"[TABLE_OR_VIEW_NOT_FOUND] ", "missing">>],
             df |-> <<>>]
      [] OTHER ->
            [raised |-> [cls |-> "ParseException",
                         msg |-> <<"[PARSE_SYNTAX_ERROR] ", command>>],
             df |-> <<>>]

\* df.limit(n)
limit(df, n) == SubSeq(df, 1, IF Len(df) < n THEN Len(df) ELSE n)

\* df.collect()
collect(df, fault) ==
    IF fault = None
    THEN [raised |-> NoException, rows |-> df]
    ELSE [raised |-> [cls |-> fault, msg |-> <<"An error occurred while calling collectToPython">>],
          rows |-> <<>>]

\* tuple(map(str, row.asDict().values()))
convert_row_as_tuple(row) == [i \in DOMAIN row |-> ToString(row[i])]

\* list(map(self._convert_row_as_tuple, df.collect()))
get_dataframe_results(df, fault) ==
    LET c == collect(df, fault) IN
    [raised |-> c.raised,
     rows   |-> [i \in DOMAIN c.rows |-> convert_row_as_tuple(c.rows[i])]]

\* sep.join(parts), each part a str
RECURSIVE join(_, _)
join(sep, parts) ==
    IF parts = <<>> THEN <<>>
    ELSE IF Len(parts) = 1 THEN parts[1]
    ELSE parts[1] \o <<sep>> \o join(sep, Tail(parts))

\* repr of a str without quotes in it
repr_str(s) == <<"'", s, "'">>

\* repr of a tuple of str: a tuple of one element ends with a comma
repr_tuple(t) ==
    IF Len(t) = 1
    THEN <<"(">> \o repr_str(t[1]) \o <<",)">>
    ELSE <<"(">> \o join(", ", [i \in DOMAIN t |-> repr_str(t[i])]) \o <<")">>

\* str of a list of tuples of str
str_list(l) == <<"[">> \o join(", ", [i \in DOMAIN l |-> repr_tuple(l[i])]) \o <<"]">>

\* SparkSQL.run
SparkSQL_run(table, command, fetch, fault) ==
    LET q == spark_sql(table, command) IN
    IF q.raised # NoException
    THEN [raised |-> q.raised, returned |-> <<>>]
    ELSE LET df == IF fetch = "one" THEN limit(q.df, 1) ELSE q.df
             r  == get_dataframe_results(df, fault)
         IN  IF r.raised # NoException
             THEN [raised |-> r.raised, returned |-> <<>>]
             ELSE [raised |-> NoException, returned |-> str_list(r.rows)]

\* A handler that takes ValueError only, as get_table_info_no_throw has
except_ValueError(e) == "ValueError" \in SqlErrorMro(e.cls)
\* except Exception as e
except_Exception(e) == "Exception" \in SqlErrorMro(e.cls)

\* SparkSQL.run_no_throw
SparkSQL_run_no_throw(table, command, fetch, fault) ==
    LET r == SparkSQL_run(table, command, fetch, fault) IN
    IF r.raised = NoException THEN r
    ELSE IF except_Exception(r.raised)
         THEN [raised |-> NoException, returned |-> <<"Error: ">> \o r.raised.msg]
         ELSE r

\* A call of run_no_throw; run is what run(command, fetch) does on the same
\* table with the same failure.
RunNoThrow(command, fetch, fault) ==
    /\ sqlOut' = [op      |-> "run_no_throw",
                  command |-> command,
                  fetch   |-> fetch,
                  run     |-> SparkSQL_run(sparkTable, command, fetch, fault),
                  result  |-> SparkSQL_run_no_throw(sparkTable, command, fetch, fault)]
    /\ UNCHANGED sparkTable

\* A call of run.
Run(command, fetch, fault) ==
    /\ sqlOut' = [op      |-> "run",
                  command |-> command,
                  fetch   |-> fetch,
                  run     |-> SparkSQL_run(sparkTable, command, fetch, fault),
                  result  |-> SparkSQL_run(sparkTable, command, fetch, fault)]
    /\ UNCHANGED sparkTable

\* The table the queries read gets another row.
InsertRow(row) ==
    /\ Len(sparkTable) < MaxRows
    /\ sparkTable' = Append(sparkTable, row)
    /\ UNCHANGED sqlOut

SparkSQLInit ==
    /\ sparkTable = <<>>
    /\ sqlOut = [op |-> "none"]

SparkSQLNext ==
    \/ \E c \in SqlCommands, f \in FetchValues, x \in CollectFaults :
          RunNoThrow(c, f, x) /\ UNCHANGED NotSparkSQL
    \/ \E c \in SqlCommands, f \in FetchValues, x \in CollectFaults :
          Run(c, f, x) /\ UNCHANGED NotSparkSQL
    \/ \E row \in RowValues : InsertRow(row) /\ UNCHANGED NotSparkSQL

\* The classes of the errors that executing a command raises.
SqlErrorClasses == {"ParseException", "AnalysisException", "Py4JJavaError"}

MaxReplicas == 2

\* A node of the cluster definition (cluster.worker, cluster.ps): not given,
\* or given with a number of replicas.
NoNode == [given |-> FALSE, replicas |-> 0]
Nodes == {NoNode} \cup {[given |-> TRUE, replicas |-> n] : n \in 0..MaxReplicas}

\* The SDK call of a backend run that fails with a service error, counted
\* from 1 in the order the calls are made; 0 when none fails.
FailPoints == 0..(2 + 2 * MaxReplicas)

\* ClusterConfigToJobSpecConverter.job_run_info(kind): the run configuration
\* of a node that is given, an empty dict for one that is not.
job_run_info(node, mode) ==
    IF node.given
    THEN [empty |-> FALSE, name |-> None, mode |-> mode]
    ELSE [empty |-> TRUE, name |-> None, mode |-> None]

\* The worker_jobrun_conf_list entries made from one node's configuration:
\* conf.get("name", worker_jobrun_conf["envVars"]["OCI__MODE"]) + "_" + str(i)
replica_confs(conf, worker_conf, replicas) ==
    [i \in 1..replicas |->
        [name |-> <<IF conf.name # None THEN conf.name ELSE worker_conf.mode,
                    "_", ToString(i - 1)>>]]

\* MLJobDistributedBackend.prepare_job_config: self.job, the configuration of
\* the main run and the list of the configurations of the other runs. The
\* default of conf.get for a ps replica reads the worker configuration, which
\* has no envVars when there is no worker node.
prepare_job_config(cluster) ==
    LET worker_jobrun_conf == job_run_info(cluster.worker, "WORKER")
        ps_jobrun_conf     == job_run_info(cluster.ps, "PS")
        worker_list == IF worker_jobrun_conf.empty THEN <<>>
                       ELSE replica_confs(worker_jobrun_conf, worker_jobrun_conf,
                                          cluster.worker.replicas)
    IN  IF ~ps_jobrun_conf.empty /\ cluster.ps.replicas > 0 /\ worker_jobrun_conf.empty
        THEN [raised |-> "KeyError", job |-> None, main |-> <<>>, workers |-> <<>>]
        ELSE [raised  |-> None,
              job     |-> "payload",
              main    |-> <<"main">>,
              workers |-> worker_list \o
                          (IF ps_jobrun_conf.empty THEN <<>>
                           ELSE replica_confs(ps_jobrun_conf, worker_jobrun_conf,
                                              cluster.ps.replicas))]

\* The steps of a backend run, in order, up to the one that raises.
sdk_calls(planned, fail) ==
    IF fail \in 1..Len(planned)
    THEN [raised |-> IF planned[fail].ev \in {"create", "run"}
                     THEN "ServiceError" ELSE "Exception",
          log    |-> SubSeq(planned, 1, fail - 1)]
    ELSE [raised |-> None, log |-> planned]

\* self.job.create(): the job definition made from a payload
JobCreate(payload) == [ev |-> "create", job |-> <<"job of", payload>>, name |-> <<>>]
\* job.run(name, ...)
JobRun(payload, name) == [ev |-> "run", job |-> <<"job of", payload>>, name |-> name]

\* if dry_run, never taken
dry_run_never(dry_run) == FALSE
\* if dry_run
is_dry_run(dry_run) == dry_run

\* MLJobDistributedBackend.run
MLJobDistributedBackend_run(cluster, dry_run, fail) ==
    LET p == prepare_job_config(cluster) IN
    IF p.raised # None
    THEN [raised |-> p.raised, returned |-> None, log |-> <<>>, workers |-> <<>>]
    ELSE IF is_dry_run(dry_run)
    THEN [raised |-> None, returned |-> None, log |-> <<>>, workers |-> p.workers]
    ELSE LET planned ==
                 <<JobCreate(p.job), JobRun(p.job, p.main)>> \o
                 (IF cluster.worker.given
                  THEN [i \in DOMAIN p.workers |-> JobRun(p.job, p.workers[i].name)]
                  ELSE <<>>)
             c == sdk_calls(planned, fail)
         IN  [raised   |-> c.raised,
              returned |-> IF c.raised = None THEN "job, main_jobrun, worker_jobruns" ELSE None,
              log      |-> c.log,
              workers  |-> p.workers]

\* A call of MLJobDistributedBackend.run on a backend made for the call.
DistributedRun(cluster, dry_run, fail) ==
    /\ mlOp' = [backend |-> "distributed", cluster |-> cluster, dry_run |-> dry_run]
    /\ mlOut' = MLJobDistributedBackend_run(cluster, dry_run, fail)

\* The runtime types of JobRuntimeFactory that a runtime config can name.
RuntimeTypes == {"container", "python", "script"}

\* The values of config["execution"].get("dry_run").
DryRunValues == {None, "False", "True"}

\* _RUNTIME_ADJUSTER_MAP.get(self.job.runtime.type, lambda: None)
RUNTIME_ADJUSTER_MAP(runtime_type) ==
    CASE runtime_type = "container" -> <<"_adjust_container_runtime">>
      [] runtime_type = "python"    -> <<"_adjust_python_runtime">>
      [] OTHER                      -> <<>>

\* A step of run that is no SDK call: loading the operator, building the
\* job, an adjuster.
Step(ev, what) == [ev |-> ev, job |-> <<"payload">>, name |-> what]

\* not self.config["execution"].get("dry_run"), taken as always true
not_dry_run_always(dry_run) == TRUE
\* not self.config["execution"].get("dry_run")
not_dry_run(dry_run) == dry_run \in {None, "False"}

\* MLJobOperatorBackend.run; fail is the step that raises, 0 for none.
MLJobOperatorBackend_run(operator_info, runtime_type, dry_run, fail) ==
    LET adjuster == RUNTIME_ADJUSTER_MAP(runtime_type)
        planned ==
            (IF operator_info = None THEN <<Step("load", <<"OperatorLoader">>)>> ELSE <<>>) \o
            <<Step("build", <<runtime_type>>),
              Step("adjust", <<"_adjust_common_information">>)>> \o
            (IF adjuster = <<>> THEN <<>> ELSE <<Step("adjust", adjuster)>>) \o
            (IF not_dry_run(dry_run)
             THEN <<JobCreate("payload"), JobRun("payload", <<>>)>>
             ELSE <<>>)
        c == sdk_calls(planned, fail)
    IN  [raised   |-> c.raised,
         returned |-> IF c.raised = None /\ not_dry_run(dry_run)
                      THEN "job_id, run_id" ELSE None,
         log      |-> c.log]

\* A call of MLJobOperatorBackend.run on a backend made for the call.
OperatorRun(operator_info, runtime_type, dry_run, fail) ==
    /\ mlOp' = [backend       |-> "operator",
                operator_info |-> operator_info,
                runtime_type  |-> runtime_type,
                dry_run       |-> dry_run]
    /\ mlOut' = MLJobOperatorBackend_run(operator_info, runtime_type, dry_run, fail)

\* The execution sections MLJobBackend.run is given: the keys it reads, None
\* for a key that is not there.
Executions ==
    [ocid       : {None, "", "ocid1.datasciencejob"},
     conda_type : {None, "service", "published"},
     conda_slug : {None, "", "dataexpl_p37_cpu_v3"},
     conda_uri  : {None, "oci://bucket@ns/conda"},
     image      : {None, "iad.ocir.io/ns/image"}]

\* Job.from_datascience_job(ocid).run()
ExistingJobRun(ocid) == [ev |-> "run", job |-> <<"existing job", ocid>>, name |-> <<>>]

\* conda_type or conda_slug is set
use_conda_pack_either(execution) ==
    Truthy(execution.conda_type) \/ Truthy(execution.conda_slug)
\* self.config["execution"].get("conda_type") and self.config["execution"].get("conda_slug")
use_conda_pack(execution) ==
    Truthy(execution.conda_type) /\ Truthy(execution.conda_slug)

\* MLJobBackend._run_with_conda_pack: a job with a ScriptRuntime
run_with_conda_pack(execution, fail) ==
    IF execution.conda_type # "service" /\ execution.conda_uri = None
    THEN [raised |-> "KeyError", log |-> <<>>]
    ELSE sdk_calls(<<JobCreate("ScriptRuntime"), JobRun("ScriptRuntime", <<>>)>>, fail)

\* MLJobBackend._run_with_image: a job with a ContainerRuntime
run_with_image(execution, fail) ==
    sdk_calls(<<JobCreate("ContainerRuntime"), JobRun("ContainerRuntime", <<>>)>>, fail)

\* MLJobBackend.run
MLJobBackend_run(execution, fail) ==
    LET c == IF Truthy(execution.ocid)
             THEN sdk_calls(<<ExistingJobRun(execution.ocid)>>, fail)
             ELSE IF use_conda_pack(execution)
             THEN run_with_conda_pack(execution, fail)
             ELSE IF Truthy(execution.image)
             THEN run_with_image(execution, fail)
             ELSE [raised |-> "ValueError", log |-> <<>>]
    IN  [raised   |-> c.raised,
         returned |-> IF c.raised = None THEN "job_id, run_id" ELSE None,
         log      |-> c.log]

\* A call of MLJobBackend.run on a backend made for the call.
BackendRun(execution, fail) ==
    /\ mlOp' = [backend |-> "jobs", execution |-> execution]
    /\ mlOut' = MLJobBackend_run(execution, fail)

Clusters == [worker : Nodes, ps : Nodes]

MLJobInit ==
    /\ mlOp = [backend |-> "none"]
    /\ mlOut = [raised |-> None, returned |-> None, log |-> <<>>]

MLJobNext ==
    \/ \E c \in Clusters, d \in BOOLEAN, f \in FailPoints :
          DistributedRun(c, d, f) /\ UNCHANGED NotMLJob
    \/ \E o \in {None, "forecast"}, t \in RuntimeTypes, d \in DryRunValues, f \in FailPoints :
          OperatorRun(o, t, d, f) /\ UNCHANGED NotMLJob
    \/ \E e \in Executions, f \in FailPoints :
          BackendRun(e, f) /\ UNCHANGED NotMLJob

\* The positions of the events of one kind in a log.
EventsOf(log, ev) == {i \in DOMAIN log : log[i].ev = ev}

\* C21: MLJobDistributedBackend.run with dry_run true creates no job, starts
\* no run and returns None. With dry_run false a run that returns has created
\* the job definition exactly once, then started the main run, then one run
\* per entry of the worker configuration list in the order of the list, every
\* run from that job definition; a run that an SDK call ended early has made
\* a prefix of these calls.
C21_DistributedRunOrder ==
    mlOp.backend = "distributed" =>
        /\ mlOp.dry_run =>
              /\ mlOut.log = <<>>
              /\ mlOut.returned = None
        /\ (~mlOp.dry_run /\ mlOut.raised = None) =>
              /\ Len(mlOut.log) = 2 + Len(mlOut.workers)
              /\ mlOut.log[1].ev = "create"
              /\ mlOut.log[2] = [ev |-> "run", job |-> mlOut.log[1].job, name |-> <<"main">>]
              /\ \A i \in DOMAIN mlOut.workers :
                    mlOut.log[2 + i] = [ev   |-> "run",
                                        job  |-> mlOut.log[1].job,
                                        name |-> mlOut.workers[i].name]
        /\ EventsOf(mlOut.log, "create") \subseteq {1}
        /\ \A i \in EventsOf(mlOut.log, "run") :
              /\ i > 1
              /\ mlOut.log[i].job = mlOut.log[1].job
              /\ (mlOut.log[i].name = <<"main">>) <=> (i = 2)

\* C21 witness: a run with two workers and one parameter server, not a dry
\* run, has returned after the job definition and four runs; the run of the
\* parameter server has the name of the first worker's run.
C21_Witness ==
    /\ mlOp.backend = "distributed"
    /\ ~mlOp.dry_run
    /\ mlOp.cluster = [worker |-> [given |-> TRUE, replicas |-> 2],
                       ps     |-> [given |-> TRUE, replicas |-> 1]]
    /\ mlOut.raised = None
    /\ Len(mlOut.log) = 5
    /\ mlOut.log[4].name = <<"WORKER", "_", "1">>
    /\ mlOut.log[5] = mlOut.log[3]

\* C22: MLJobOperatorBackend.run creates a job and starts a run of it, and
\* returns their ids, only when execution.dry_run is not set; in dry-run mode
\* it creates no job, starts no run and returns None. In both modes the
\* adjuster of the job's runtime type, when the type has one, has been
\* applied before a job is created and before run returns.
C22_OperatorRunHonoursDryRun ==
    mlOp.backend = "operator" =>
        LET dry      == mlOp.dry_run = "True"
            creates  == EventsOf(mlOut.log, "create")
            runs     == EventsOf(mlOut.log, "run")
            adjusted == \E j \in DOMAIN mlOut.log :
                           /\ mlOut.log[j].ev = "adjust"
                           /\ mlOut.log[j].name =
                                 <<IF mlOp.runtime_type = "container"
                                   THEN "_adjust_container_runtime"
                                   ELSE "_adjust_python_runtime">>
                           /\ \A i \in creates : j < i
        IN
        /\ dry => (creates = {} /\ runs = {} /\ mlOut.returned = None)
        /\ (~dry /\ mlOut.raised = None) =>
              /\ Cardinality(creates) = 1 /\ Cardinality(runs) = 1
              /\ \A i \in creates, j \in runs :
                    i < j /\ mlOut.log[j].job = mlOut.log[i].job
              /\ mlOut.returned = "job_id, run_id"
        /\ mlOut.returned # None => (~dry /\ creates # {} /\ runs # {})
        /\ (mlOp.runtime_type \in {"container", "python"}
              /\ (creates # {} \/ mlOut.raised = None)) => adjusted

\* C22 witness: a run with a container runtime, not a dry run, has adjusted
\* the runtime, created the job, started the run and returned the ids; the
\* operator was loaded first.
C22_Witness ==
    /\ mlOp.backend = "operator"
    /\ mlOp.runtime_type = "container"
    /\ mlOp.dry_run = None
    /\ mlOp.operator_info = None
    /\ mlOut.returned = "job_id, run_id"
    /\ Len(mlOut.log) = 6
    /\ mlOut.log[4].name = <<"_adjust_container_runtime">>
    /\ mlOut.log[5].ev = "create"

\* C23: MLJobBackend.run takes one branch. With execution.ocid set it starts
\* a run of that job and creates no job. Otherwise, with conda_type and
\* conda_slug both set, the only job it creates has a script (conda)
\* runtime; else, with image set, the only job it creates has a container
\* runtime; else it raises ValueError and has created and run nothing. A run
\* that returns has created that job once and started one run of it.
C23_BackendRunBranch ==
    mlOp.backend = "jobs" =>
        LET e       == mlOp.execution
            set(v)  == v \notin {None, ""}
            creates == EventsOf(mlOut.log, "create")
            runs    == EventsOf(mlOut.log, "run")
            made(rt) == /\ \A i \in creates : mlOut.log[i].job = <<"job of", rt>>
                        /\ \A i \in runs : mlOut.log[i].job = <<"job of", rt>>
                        /\ mlOut.raised = None =>
                              (mlOut.log[1].ev = "create" /\ mlOut.log[2].ev = "run"
                                 /\ Len(mlOut.log) = 2)
        IN
        CASE set(e.ocid) ->
                /\ creates = {}
                /\ \A i \in runs : mlOut.log[i].job = <<"existing job", e.ocid>>
                /\ mlOut.raised = None => Cardinality(runs) = 1
          [] ~set(e.ocid) /\ set(e.conda_type) /\ set(e.conda_slug) -> made("ScriptRuntime")
          [] ~set(e.ocid) /\ ~(set(e.conda_type) /\ set(e.conda_slug)) /\ set(e.image) ->
                made("ContainerRuntime")
          [] OTHER -> mlOut.raised = "ValueError" /\ mlOut.log = <<>>

\* C23 witness: with no ocid, a conda type but an empty conda slug, and an
\* image, run has created a job with a container runtime and started it.
C23_Witness ==
    /\ mlOp.backend = "jobs"
    /\ mlOp.execution.ocid = ""
    /\ mlOp.execution.conda_type = "service"
    /\ mlOp.execution.conda_slug = ""
    /\ mlOp.execution.image # None
    /\ mlOut.returned = "job_id, run_id"
    /\ mlOut.log[1] = [ev |-> "create", job |-> <<"job of", "ContainerRuntime">>, name |-> <<>>]


(***************************************************************************)
(* feature_store/common/spark_session_singleton.py: SingletonMeta.__call__ *)
(* called from several threads. The steps of a call are those between      *)
(* which the interpreter can switch threads: the membership test, the      *)
(* construction of the instance, the store into _instances and the read of *)
(* the value to return. No lock is held over them.                         *)
(***************************************************************************)
\* The number of threads that call SparkSessionSingleton().
MaxThreads == 2

Threads == 1..MaxThreads

\* An instance is named by the number of the constructor run that made it;
\* NoInstance stands for no entry in _instances and for nothing obtained yet.
NoInstance == 0

\* if cls not in cls._instances
ThreadCheck(t) ==
    /\ thPc[t] = "idle"
    /\ thPc' = [thPc EXCEPT ![t] = IF thInstances = NoInstance THEN "construct" ELSE "return"]
    /\ UNCHANGED <<thInstances, thNew, thGot, thCtorRuns>>

\* super().__call__(*args, **kwargs): SparkSessionSingleton.__init__ runs
ThreadConstruct(t) ==
    /\ thPc[t] = "construct"
    /\ thCtorRuns' = thCtorRuns + 1
    /\ thNew' = [thNew EXCEPT ![t] = thCtorRuns + 1]
    /\ thPc' = [thPc EXCEPT ![t] = "store"]
    /\ UNCHANGED <<thInstances, thGot>>

\* cls._instances[cls] = <the new instance>
ThreadStore(t) ==
    /\ thPc[t] = "store"
    /\ thInstances' = thNew[t]
    /\ thPc' = [thPc EXCEPT ![t] = "return"]
    /\ UNCHANGED <<thNew, thGot, thCtorRuns>>

\* return cls._instances[cls]
ThreadReturn(t) ==
    /\ thPc[t] = "return"
    /\ thGot' = [thGot EXCEPT ![t] = thInstances]
    /\ thPc' = [thPc EXCEPT ![t] = "idle"]
    /\ UNCHANGED <<thInstances, thNew, thCtorRuns>>

ThreadsInit ==
    /\ thPc = [t \in Threads |-> "idle"]
    /\ thInstances = NoInstance
    /\ thNew = [t \in Threads |-> NoInstance]
    /\ thGot = [t \in Threads |-> NoInstance]
    /\ thCtorRuns = 0

ThreadsNext ==
    \/ \E t \in Threads : ThreadCheck(t) /\ UNCHANGED NotThreads
    \/ \E t \in Threads : ThreadConstruct(t) /\ UNCHANGED NotThreads
    \/ \E t \in Threads : ThreadStore(t) /\ UNCHANGED NotThreads
    \/ \E t \in Threads : ThreadReturn(t) /\ UNCHANGED NotThreads

\* C26: when threads call SparkSessionSingleton() concurrently with no
\* instance cached, the constructor runs at most once and all threads obtain
\* the same instance.
C26_ConcurrentCallsOneInstance ==
    /\ thCtorRuns <= 1
    /\ \A t, u \in Threads :
          (thGot[t] # NoInstance /\ thGot[u] # NoInstance) => thGot[t] = thGot[u]


(***************************************************************************)
(* opctl/model/cmds.py: download_model and _download_model                 *)
(***************************************************************************)
\* The mode os.chmod(artifact_directory, 777) is given: the decimal number
\* 777, which is 0o1411.
CHMOD_MODE == 777

\* The mode of a directory os.makedirs creates under the usual umask: 0o755.
MAKEDIRS_MODE == 493

\* What is at the path artifact_directory: nothing, or a directory with its
\* entries and its permission bits.
NoArtifactDir == [kind |-> "absent", files |-> {}, mode |-> 0]
ArtifactDir(files, mode) == [kind |-> "dir", files |-> files, mode |-> mode]

\* The directories a user's earlier downloads have left.
ArtifactDirStates ==
    {NoArtifactDir} \cup
    {ArtifactDir(fs, MAKEDIRS_MODE) : fs \in {{}, {"model.pkl"}, {"model.pkl", "score.py"}}}

\* How DataScienceModel.from_id(ocid).download_artifact(...) ends when the
\* directory can be written: it returns, or it raises before anything is
\* written, or it raises with a part of the artifact written.
DownloadOutcomes == {"ok", "ServiceError", "ConnectionError"}

\* The owner of a directory may add and remove its entries when the mode has
\* the owner's write bit (0o200) and search bit (0o100); the superuser always may.
may_modify(d, as_root) ==
    \/ as_root
    \/ ((d.mode \div 128) % 2 = 1 /\ (d.mode \div 64) % 2 = 1)

\* os.makedirs(artifact_directory, exist_ok=True)
cmds_makedirs(d) == IF d.kind = "absent" THEN ArtifactDir({}, MAKEDIRS_MODE) ELSE d

\* os.chmod(artifact_directory, mode)
chmod(d, mode) == [d EXCEPT !.mode = mode]

\* shutil.rmtree(artifact_directory, ignore_errors=True): the entries that
\* cannot be removed stay, and so does a directory that is not empty; no
\* error is raised.
rmtree_ignore_errors(d, as_root) ==
    IF may_modify(d, as_root) \/ d.files = {} THEN NoArtifactDir ELSE d

\* The try block of _download_model: from_id and download_artifact. Existing
\* entries are removed first (remove_existing_artifact) and the artifact is
\* written, which needs the right to modify the directory.
download_artifact(d, as_root, outcome) ==
    IF outcome = "ServiceError" THEN [raised |-> "ServiceError", dir |-> d]
    ELSE IF ~may_modify(d, as_root) THEN [raised |-> "PermissionError", dir |-> d]
    ELSE IF outcome = "ConnectionError"
    THEN [raised |-> "ConnectionError", dir |-> [d EXCEPT !.files = {"model.pkl.part"}]]
    ELSE [raised |-> None, dir |-> [d EXCEPT !.files = {"model.pkl", "score.py"}]]

\* _download_model
cmds_download_model(d, as_root, outcome) ==
    LET made == chmod(cmds_makedirs(d), CHMOD_MODE)
        r    == download_artifact(made, as_root, outcome)
    IN  IF r.raised = None
        THEN [raised |-> None, dir |-> r.dir]
        ELSE [raised |-> r.raised, dir |-> rmtree_ignore_errors(r.dir, as_root)]

\* The test of download_model:
\* (not os.path.exists(d) or len(os.listdir(d)) == 0) or force_overwrite
may_download(d, force_overwrite) ==
    (d.kind = "absent" \/ d.files = {}) \/ force_overwrite = "True"

\* download_model
download_model(d, force_overwrite, as_root, outcome) ==
    IF may_download(d, force_overwrite)
    THEN cmds_download_model(d, as_root, outcome) @@ [started |-> TRUE]
    ELSE [raised |-> "ValueError", dir |-> d, started |-> FALSE]

\* A call of download_model.
DownloadModel(force_overwrite, as_root, outcome) ==
    LET r == download_model(artifactDir, force_overwrite, as_root, outcome) IN
    /\ cmdOut' = [called          |-> TRUE,
                  force_overwrite |-> force_overwrite,
                  as_root         |-> as_root,
                  before          |-> artifactDir,
                  started         |-> r.started,
                  raised          |-> r.raised,
                  download_raised |-> IF r.started
                                      THEN download_artifact(
                                               chmod(cmds_makedirs(artifactDir), CHMOD_MODE),
                                               as_root, outcome).raised
                                      ELSE None,
                  after           |-> r.dir]
    /\ artifactDir' = r.dir

\* The user puts the directory into one of the states earlier downloads leave.
ResetArtifactDir(d) ==
    /\ artifactDir' = d
    /\ UNCHANGED cmdOut

ModelCmdInit ==
    /\ artifactDir = NoArtifactDir
    /\ cmdOut = [called |-> FALSE]

ModelCmdNext ==
    \/ \E f \in ForceValues, root \in BOOLEAN, o \in DownloadOutcomes :
          DownloadModel(f, root, o) /\ UNCHANGED NotModelCmd
    \/ \E d \in ArtifactDirStates : ResetArtifactDir(d) /\ UNCHANGED NotModelCmd

\* C27: download_model starts a download only when the artifact directory is
\* missing or empty or force_overwrite is set, and otherwise raises
\* ValueError and leaves the directory as it was; when the download fails
\* with an exception, the artifact directory is removed and that exception
\* is raised, so no failed call leaves the directory behind.
C27_FailedDownloadRemovesDirectory ==
    cmdOut.called =>
        LET allowed == \/ cmdOut.before.kind = "absent"
                       \/ cmdOut.before.files = {}
                       \/ cmdOut.force_overwrite = "True"
        IN
        /\ cmdOut.started <=> allowed
        /\ ~allowed => (cmdOut.raised = "ValueError" /\ cmdOut.after = cmdOut.before)
        /\ (cmdOut.started /\ cmdOut.download_raised # None) =>
              /\ cmdOut.raised = cmdOut.download_raised
              /\ cmdOut.after = NoArtifactDir


(***************************************************************************)
(* The specifications                                                      *)
(***************************************************************************)
\* Each subsystem at rest, for the specifications of the other subsystems.
SingletonIdle == SingletonInit /\ envDeveloperMode = "unset"
SerializeIdle == SerializeInit /\ envVerifyCerts = "unset"
AquaIdle == AquaInit
TelemetryIdle == TelemetryInit
ForecastIdle == ForecastInit
HandlerIdle == HandlerInit
DownloaderIdle == DownloaderInit
SparkSQLIdle == SparkSQLInit
MLJobIdle == MLJobInit
ThreadsIdle == ThreadsInit
ModelCmdIdle == ModelCmdInit

InitSingleton == SingletonInit /\ SerializeIdle /\ AquaIdle /\ TelemetryIdle /\ ForecastIdle /\ HandlerIdle /\ DownloaderIdle /\ SparkSQLIdle /\ MLJobIdle /\ ThreadsIdle /\ ModelCmdIdle
SpecSingleton == InitSingleton /\ [][SingletonNext]_vars

InitSerialize == SerializeInit /\ SingletonIdle /\ AquaIdle /\ TelemetryIdle /\ ForecastIdle /\ HandlerIdle /\ DownloaderIdle /\ SparkSQLIdle /\ MLJobIdle /\ ThreadsIdle /\ ModelCmdIdle
SpecSerialize == InitSerialize /\ [][SerializeNext]_vars

InitAqua == AquaInit /\ SingletonIdle /\ SerializeIdle /\ TelemetryIdle /\ ForecastIdle /\ HandlerIdle /\ DownloaderIdle /\ SparkSQLIdle /\ MLJobIdle /\ ThreadsIdle /\ ModelCmdIdle
SpecAqua == InitAqua /\ [][AquaNext]_vars

InitTelemetry == TelemetryInit /\ SingletonIdle /\ SerializeIdle /\ AquaIdle /\ ForecastIdle /\ HandlerIdle /\ DownloaderIdle /\ SparkSQLIdle /\ MLJobIdle /\ ThreadsIdle /\ ModelCmdIdle
SpecTelemetry == InitTelemetry /\ [][TelemetryNext]_vars

InitForecast == ForecastInit /\ SingletonIdle /\ SerializeIdle /\ AquaIdle /\ TelemetryIdle /\ HandlerIdle /\ DownloaderIdle /\ SparkSQLIdle /\ MLJobIdle /\ ThreadsIdle /\ ModelCmdIdle
SpecForecast == InitForecast /\ [][ForecastNext]_vars

InitHandler == HandlerInit /\ SingletonIdle /\ SerializeIdle /\ AquaIdle /\ TelemetryIdle /\ ForecastIdle /\ DownloaderIdle /\ SparkSQLIdle /\ MLJobIdle /\ ThreadsIdle /\ ModelCmdIdle
SpecHandler == InitHandler /\ [][HandlerNext]_vars

InitDownloader == DownloaderInit /\ SingletonIdle /\ SerializeIdle /\ AquaIdle /\ TelemetryIdle /\ ForecastIdle /\ HandlerIdle /\ SparkSQLIdle /\ MLJobIdle /\ ThreadsIdle /\ ModelCmdIdle
SpecDownloader == InitDownloader /\ [][DownloaderNext]_vars

InitSparkSQL == SparkSQLInit /\ SingletonIdle /\ SerializeIdle /\ AquaIdle /\ TelemetryIdle /\ ForecastIdle /\ HandlerIdle /\ DownloaderIdle /\ MLJobIdle /\ ThreadsIdle /\ ModelCmdIdle
SpecSparkSQL == InitSparkSQL /\ [][SparkSQLNext]_vars

InitMLJob == MLJobInit /\ SingletonIdle /\ SerializeIdle /\ AquaIdle /\ TelemetryIdle /\ ForecastIdle /\ HandlerIdle /\ DownloaderIdle /\ SparkSQLIdle /\ ThreadsIdle /\ ModelCmdIdle
SpecMLJob == InitMLJob /\ [][MLJobNext]_vars

InitThreads == ThreadsInit /\ SingletonIdle /\ SerializeIdle /\ AquaIdle /\ TelemetryIdle /\ ForecastIdle /\ HandlerIdle /\ DownloaderIdle /\ SparkSQLIdle /\ MLJobIdle /\ ModelCmdIdle
SpecThreads == InitThreads /\ [][ThreadsNext]_vars

InitModelCmd == ModelCmdInit /\ SingletonIdle /\ SerializeIdle /\ AquaIdle /\ TelemetryIdle /\ ForecastIdle /\ HandlerIdle /\ DownloaderIdle /\ SparkSQLIdle /\ MLJobIdle /\ ThreadsIdle
SpecModelCmd == InitModelCmd /\ [][ModelCmdNext]_vars

=============================================================================
